---- MODULE Spec2Model ----
(***************************************************************************)
(* Device-fleet monitoring backend: the heartbeat endpoint                 *)
(* (src/api/install.ts), the upload endpoint (src/api/upload.ts, current   *)
(* revision at lines 172-327) and the device listing/management endpoint   *)
(* (src/components/AuthPage.tsx lines 137-345), over a key-value store     *)
(* holding the set device_ids and one JSON object per key device:<id>.     *)
(*                                                                         *)
(* JSON objects are functions from key strings to values: a key is either  *)
(* present or absent, and {...a, ...b} is function override.               *)
(* Usage minutes are kept as integers counting 1/60000 of a minute, which  *)
(* is exact for the integer minutes, seconds and milliseconds the agents   *)
(* send (floating-point rounding is not modelled).                         *)
(* Timestamps are integers counting minutes; toISOString / new Date(...)   *)
(* round-trip exactly on the timestamps the handlers produce.              *)
(* installId and hostname are sequences of characters so that substring    *)
(* is computed.                                                            *)
(***************************************************************************)
EXTENDS Integers, Sequences, FiniteSets, TLC

VARIABLES
    device_ids,   \* the KV set 'device_ids'
    kv,           \* the KV keys device:<id>: a function from the ids that have a record to the record
    blobs,        \* the blob store: the set of stored objects
    now,          \* the wall clock, in minutes
    env,          \* process.env: which backing stores are configured
    resp,         \* the last response sent: endpoint, request and status code
    reqs,         \* requests in progress (position, inputs, locals): used by the interleaved specification
    hist          \* history of the agent deltas accepted per device (for the accumulation properties)

vars == <<device_ids, kv, blobs, now, env, resp, reqs, hist>>

----------------------------------------------------------------------------
(* Bounds *)

MaxTime == 5          \* the clock runs from 0 to MaxTime minutes
MaxBeats == 2         \* heartbeats that reach the store in one run
MaxUploads == 1       \* uploads that reach the blob store in one run
MaxDeltaLen == 2      \* entries in one usage array of a payload

(* Program constants *)

UnitsPerMinute == 60000   \* usageMinutes are stored in units of 1/60000 minute
UnitsPerSecond == 1000    \* usageSeconds / 60, in those units
LegacyVisitsThreshold == 1000
OnlineThresholdMinutes == 5
MaxVideos == 50
PlaceholderIdChars == 6

----------------------------------------------------------------------------
(* JavaScript values *)

Has(o, k) == k \in DOMAIN o

EmptyObj == [k \in {} |-> 0]

\* {...a, ...b}
Spread(a, b) == [k \in DOMAIN a \cup DOMAIN b |-> IF k \in DOMAIN b THEN b[k] ELSE a[k]]

\* the object without key k (JSON serialisation drops keys whose value is undefined)
Without(o, k) == [j \in DOMAIN o \ {k} |-> o[j]]

\* an optional value: <<>> is undefined, <<v>> is the value v
Undefined == <<>>
Get(o, k) == IF Has(o, k) THEN <<o[k]>> ELSE Undefined

\* o with key k set to the optional value m
WithOpt(o, k, m) == IF m = Undefined THEN Without(o, k) ELSE Spread(o, [j \in {k} |-> m[1]])

\* truthiness of an optional string, and of an optional character sequence
TruthyStr(m) == m # Undefined /\ m[1] # ""
TruthyChars(m) == m # Undefined /\ Len(m[1]) > 0

\* a || b on optional strings
OrStr(a, b) == IF TruthyStr(a) THEN a ELSE b

\* A JSON scalar sent where a number is expected: a number, or a non-numeric string.
JsNum(n) == [num |-> TRUE, v |-> n]
JsNaNStr == [num |-> FALSE, v |-> 0]

\* A JavaScript number: an integer or NaN.
NaN == [nan |-> TRUE, v |-> 0]
Num(n) == [nan |-> FALSE, v |-> n]

\* (mutation of Number: a non-numeric string counts as 1)
NumberOfStringIsOne(o, k) ==
    IF Has(o, k) THEN (IF o[k].num THEN Num(o[k].v) ELSE Num(1)) ELSE NaN

\* Number(o[k]): NaN for an absent key (undefined) and for a non-numeric string
Number(o, k) == IF Has(o, k) /\ o[k].num THEN Num(o[k].v) ELSE NaN

TruthyNum(x) == ~x.nan /\ x.v # 0
OrNum(a, b) == IF TruthyNum(a) THEN a ELSE b
Scale(x, f) == IF x.nan THEN NaN ELSE Num(x.v * f)

----------------------------------------------------------------------------
(* Heartbeat: usage accumulation (src/api/install.ts) *)

\* index of the first element of the array whose field k equals v, 0 if none (Map.get)
RECURSIVE IndexFrom(_, _, _, _)
IndexFrom(arr, k, v, i) ==
    IF i > Len(arr) THEN 0
    ELSE IF arr[i][k] = v THEN i
    ELSE IndexFrom(arr, k, v, i + 1)

IndexOf(arr, k, v) == IndexFrom(arr, k, v, 1)

\* minutesIn / incMinutes: the first truthy of usageMinutes, usage_minutes,
\* usageSeconds / 60, usage_seconds / 60, else 0
minutesIn(inc) ==
    OrNum(Scale(Number(inc, "usageMinutes"), UnitsPerMinute),
    OrNum(Scale(Number(inc, "usage_minutes"), UnitsPerMinute),
    OrNum(Scale(Number(inc, "usageSeconds"), UnitsPerSecond),
    OrNum(Scale(Number(inc, "usage_seconds"), UnitsPerSecond),
          Num(0))))).v

\* (mutation of AppStep: an existing entry is overwritten by the delta instead of increased)
AppStepOverwrite(usageMap, incApp) ==
    LET m == minutesIn(incApp)
        i == IndexOf(usageMap, "name", incApp.name)
    IN  IF m > 0
        THEN IF i > 0
             THEN [usageMap EXCEPT ![i] = Spread(@, [usageMinutes |-> m])]
             ELSE Append(usageMap, [name |-> incApp.name, usageMinutes |-> m])
        ELSE usageMap

\* one step of appUsageRaw.forEach on the entries of usageMap (kept in insertion order)
AppStep(usageMap, incApp) ==
    LET m == minutesIn(incApp)
        i == IndexOf(usageMap, "name", incApp.name)
    IN  IF m > 0
        THEN IF i > 0
             THEN [usageMap EXCEPT ![i] = Spread(@, [usageMinutes |-> @.usageMinutes + m])]
             ELSE Append(usageMap,
                         WithOpt([name |-> incApp.name, usageMinutes |-> m],
                                 "color", Get(incApp, "color")))
        ELSE usageMap

RECURSIVE AppFold(_, _)
AppFold(usageMap, raw) ==
    IF raw = <<>> THEN usageMap
    ELSE AppFold(AppStep(usageMap, Head(raw)), Tail(raw))

\* mergedAppUsage, given existingData.appUsage || [] and the resolved appUsageRaw (optional)
mergedAppUsage(existingApps, raw) ==
    IF raw # Undefined /\ Len(raw[1]) > 0
    THEN AppFold(existingApps, raw[1])
    ELSE existingApps

\* incVisits and incMinutes after the legacy fallback
incVisitsRaw(incSite) == OrNum(Number(incSite, "visits"), Num(0)).v

\* (mutation of IsLegacy: exactly 1000 visits already count as milliseconds)
IsLegacyInclusive(incSite) ==
    incVisitsRaw(incSite) >= LegacyVisitsThreshold /\ minutesIn(incSite) = 0

IsLegacy(incSite) ==
    incVisitsRaw(incSite) > LegacyVisitsThreshold /\ minutesIn(incSite) = 0

\* (mutation of incVisits: the milliseconds form keeps its visits)
incVisitsKeepsLegacy(incSite) == incVisitsRaw(incSite)

incVisits(incSite) == IF IsLegacy(incSite) THEN 0 ELSE incVisitsRaw(incSite)

\* visits / 1000 / 60 minutes is exactly `visits` units
incMinutes(incSite) ==
    IF IsLegacy(incSite) THEN incVisitsRaw(incSite) ELSE minutesIn(incSite)

\* (mutation of WebStep: a category carried by the delta replaces the stored one)
WebStepTakesCategory(webMap, incSite) ==
    LET i == IndexOf(webMap, "domain", incSite.domain)
    IN  IF i > 0
        THEN [webMap EXCEPT ![i] = Spread(@, [visits |-> @.visits + incVisits(incSite),
                                              usageMinutes |-> @.usageMinutes + incMinutes(incSite),
                                              category |-> OrStr(Get(incSite, "category"),
                                                                 <<@.category>>)[1]])]
        ELSE Append(webMap, [domain |-> incSite.domain,
                             visits |-> incVisits(incSite),
                             usageMinutes |-> incMinutes(incSite),
                             category |-> OrStr(Get(incSite, "category"), <<"Browsing">>)[1]])

\* one step of webUsageRaw.forEach on the entries of webMap (kept in insertion order)
WebStep(webMap, incSite) ==
    LET i == IndexOf(webMap, "domain", incSite.domain)
    IN  IF i > 0
        THEN [webMap EXCEPT ![i] = Spread(@, [visits |-> @.visits + incVisits(incSite),
                                              usageMinutes |-> @.usageMinutes + incMinutes(incSite)])]
        ELSE Append(webMap, [domain |-> incSite.domain,
                             visits |-> incVisits(incSite),
                             usageMinutes |-> incMinutes(incSite),
                             category |-> OrStr(Get(incSite, "category"), <<"Browsing">>)[1]])

RECURSIVE WebFold(_, _)
WebFold(webMap, raw) ==
    IF raw = <<>> THEN webMap
    ELSE WebFold(WebStep(webMap, Head(raw)), Tail(raw))

\* (mutation of mergedWebUsage: an array of the payload, even an empty one, is merged
\* into an empty map, so that an empty array clears the stored sites)
mergedWebUsageFromPayload(existingSites, raw) ==
    IF raw # Undefined
    THEN WebFold(<<>>, raw[1])
    ELSE existingSites

mergedWebUsage(existingSites, raw) ==
    IF raw # Undefined /\ Len(raw[1]) > 0
    THEN WebFold(existingSites, raw[1])
    ELSE existingSites

\* a || b on optional arrays (an array, even an empty one, is truthy)
OrArr(a, b) == IF a # Undefined THEN a ELSE b

\* Normalization: the usage arrays and the scalar aliases of a payload
appUsageRaw(data) == OrArr(Get(data, "appUsage"), OrArr(Get(data, "AppUsage"), Get(data, "app_usage")))
webUsageRaw(data) == OrArr(Get(data, "webUsage"), OrArr(Get(data, "webUsage"), Get(data, "web_usage")))
userNameOf(data) ==
    OrStr(Get(data, "userName"), OrStr(Get(data, "UserName"), OrStr(Get(data, "username"), Get(data, "user"))))
osVersionOf(data) ==
    OrStr(Get(data, "osVersion"), OrStr(Get(data, "OsVersion"), Get(data, "OSVersion")))

\* existingData.appUsage || [] (and likewise webUsage, videos)
ArrOrEmpty(o, k) == IF Has(o, k) THEN o[k] ELSE <<>>

\* (mutation of finalVideos: any videos array of the payload, even an empty one, is accepted)
finalVideosAnyArray(existingData, data) ==
    IF Has(data, "videos") THEN data.videos
    ELSE ArrOrEmpty(existingData, "videos")

\* finalVideos: the payload's videos if a non-empty array, else the existing ones
finalVideos(existingData, data) ==
    IF Has(data, "videos") /\ Len(data.videos) > 0 THEN data.videos
    ELSE ArrOrEmpty(existingData, "videos")

\* (mutation of updatedData: without a screenshot in the payload, the payload's own
\* lastScreenshotTime is stored)
updatedDataKeepsPayloadShotTime(existingData, data, t) ==
    LET shot == OrStr(Get(data, "lastScreenshot"), Get(existingData, "lastScreenshot"))
        shotTime == IF TruthyStr(Get(data, "lastScreenshot")) THEN <<t>>
                    ELSE OrArr(Get(data, "lastScreenshotTime"), Get(existingData, "lastScreenshotTime"))
        o1 == Spread(Spread(existingData, data),
                     [appUsage |-> mergedAppUsage(ArrOrEmpty(existingData, "appUsage"), appUsageRaw(data)),
                      webUsage |-> mergedWebUsage(ArrOrEmpty(existingData, "webUsage"), webUsageRaw(data)),
                      videos |-> finalVideos(existingData, data),
                      lastSeen |-> t])
        o2 == WithOpt(o1, "userName", OrStr(userNameOf(data), Get(existingData, "userName")))
        o3 == WithOpt(o2, "osVersion", OrStr(osVersionOf(data), Get(existingData, "osVersion")))
        o4 == WithOpt(o3, "lastScreenshot", shot)
    IN  WithOpt(o4, "lastScreenshotTime", shotTime)

\* updatedData, as serialised by kv.set, for a heartbeat handled at time t
updatedData(existingData, data, t) ==
    LET shot == OrStr(Get(data, "lastScreenshot"), Get(existingData, "lastScreenshot"))
        shotTime == IF TruthyStr(Get(data, "lastScreenshot")) THEN <<t>>
                    ELSE Get(existingData, "lastScreenshotTime")
        o1 == Spread(Spread(existingData, data),
                     [appUsage |-> mergedAppUsage(ArrOrEmpty(existingData, "appUsage"), appUsageRaw(data)),
                      webUsage |-> mergedWebUsage(ArrOrEmpty(existingData, "webUsage"), webUsageRaw(data)),
                      videos |-> finalVideos(existingData, data),
                      lastSeen |-> t])
        o2 == WithOpt(o1, "userName", OrStr(userNameOf(data), Get(existingData, "userName")))
        o3 == WithOpt(o2, "osVersion", OrStr(osVersionOf(data), Get(existingData, "osVersion")))
        o4 == WithOpt(o3, "lastScreenshot", shot)
    IN  WithOpt(o4, "lastScreenshotTime", shotTime)

----------------------------------------------------------------------------
(* Upload: linking the stored video to the device record (src/api/upload.ts) *)

Min(a, b) == IF a < b THEN a ELSE b

\* s.substring(0, n)
Substring0(s, n) == SubSeq(s, 1, Min(n, Len(s)))

\* a || b on optional character sequences
OrChars(a, b) == IF TruthyChars(a) THEN a ELSE b

\* fields['installId'] || fields['device']
deviceIdOf(fields) == OrChars(Get(fields, "installId"), Get(fields, "device"))

\* newVideo, for the blob url and the form fields of an upload handled at time t
newVideo(url, fields, t) ==
    [url |-> url,
     timestamp |-> IF Has(fields, "timestamp") THEN fields.timestamp ELSE t,
     filename |-> OrStr(Get(fields, "filename"), <<"recording.mp4">>)[1]]

\* (mutation of baseDevice: the placeholder hostname carries the whole id)
baseDeviceWholeId(existingDevice, deviceId, t) ==
    Spread([installId |-> deviceId,
            hostname |-> OrChars(Get(existingDevice, "hostname"), <<<<"Device-">> \o deviceId>>)[1],
            status |-> OrStr(Get(existingDevice, "status"), <<"Online">>)[1],
            lastSeen |-> t,
            appUsage |-> ArrOrEmpty(existingDevice, "appUsage"),
            webUsage |-> ArrOrEmpty(existingDevice, "webUsage")],
           existingDevice)

\* baseDevice: the defaults, overridden by every field of the existing record
baseDevice(existingDevice, deviceId, t) ==
    Spread([installId |-> deviceId,
            hostname |-> OrChars(Get(existingDevice, "hostname"),
                                 <<<<"Device-">> \o Substring0(deviceId, PlaceholderIdChars)>>)[1],
            status |-> OrStr(Get(existingDevice, "status"), <<"Online">>)[1],
            lastSeen |-> t,
            appUsage |-> ArrOrEmpty(existingDevice, "appUsage"),
            webUsage |-> ArrOrEmpty(existingDevice, "webUsage")],
           existingDevice)

\* [newVideo, ...(existingDevice.videos || [])].slice(0, 50)
videosAfterUpload(existingDevice, video) ==
    Substring0(<<video>> \o ArrOrEmpty(existingDevice, "videos"), MaxVideos)

\* (mutation of uploadedDevice: the usage arrays are written empty along with the videos)
uploadedDeviceResetsUsage(existingDevice, deviceId, video, t) ==
    Spread(baseDevice(existingDevice, deviceId, t),
           [videos |-> videosAfterUpload(existingDevice, video),
            appUsage |-> <<>>, webUsage |-> <<>>])

\* the record written by the upload
uploadedDevice(existingDevice, deviceId, video, t) ==
    Spread(baseDevice(existingDevice, deviceId, t),
           [videos |-> videosAfterUpload(existingDevice, video)])

----------------------------------------------------------------------------
(* Device management and listing (src/components/AuthPage.tsx) *)

\* (mutation of resetData: the videos are cleared along with the usage)
resetDataClearsVideos(existingData) ==
    Spread(existingData, [appUsage |-> <<>>, webUsage |-> <<>>, videos |-> <<>>])

\* (mutation of resetData: only the application usage is cleared)
resetDataAppsOnly(existingData) == Spread(existingData, [appUsage |-> <<>>])

\* { ...existingData, appUsage: [], webUsage: [] }
resetData(existingData) == Spread(existingData, [appUsage |-> <<>>, webUsage |-> <<>>])

\* (mutation of companyData: the record is written without the existing fields)
companyDataNoSpread(existingData, company) == WithOpt(EmptyObj, "company", company)

\* { ...existingData, company: company }, company being optional in the PATCH body
companyData(existingData, company) == WithOpt(existingData, "company", company)

\* (mutation of statusAt: a device seen exactly 5 minutes ago still counts as Online)
statusAtInclusive(data, t) ==
    IF Has(data, "lastSeen") /\ t - data.lastSeen <= OnlineThresholdMinutes
    THEN "Online" ELSE "Offline"

\* 'Online' if seen within the last 5 minutes
\* (new Date(data.lastSeen || 0) is the epoch, decades before any clock value)
statusAt(data, t) ==
    IF Has(data, "lastSeen") /\ t - data.lastSeen < OnlineThresholdMinutes
    THEN "Online" ELSE "Offline"

\* toLowerCase on the characters the model uses
LowerChar(c) ==
    CASE c = "H" -> "h"
      [] c = "D" -> "d"
      [] c = "Device-" -> "device-"
      [] OTHER -> c

toLowerCase(str) == [i \in DOMAIN str |-> LowerChar(str[i])]

\* Array.prototype.sort with the comparator b.k - a.k: stable, descending by field k
RECURSIVE InsertDesc(_, _, _)
InsertDesc(sorted, x, k) ==
    IF sorted = <<>> THEN <<x>>
    ELSE IF Head(sorted)[k] >= x[k] THEN <<Head(sorted)>> \o InsertDesc(Tail(sorted), x, k)
    ELSE <<x>> \o sorted

RECURSIVE SortDescFrom(_, _, _)
SortDescFrom(sorted, arr, k) ==
    IF arr = <<>> THEN sorted
    ELSE SortDescFrom(InsertDesc(sorted, Head(arr), k), Tail(arr), k)

SortDesc(arr, k) == SortDescFrom(<<>>, arr, k)

\* the blobs under recordings/<hostname>/, as video entries
directUploads(blobVideos, hostname) ==
    LET Mine(blob) == Len(blob.parts) >= 3 /\ toLowerCase(blob.parts[2]) = toLowerCase(hostname)
        mine == SelectSeq(blobVideos, Mine)
    IN  [i \in DOMAIN mine |->
            [url |-> mine[i].url,
             timestamp |-> IF mine[i].nameTime # Undefined THEN mine[i].nameTime[1]
                           ELSE mine[i].uploadedAt,
             filename |-> mine[i].parts[Len(mine[i].parts)],
             size |-> mine[i].size]]

\* allVideos.slice(0, 50): the record's videos and the direct uploads not among them, newest first
viewVideos(data, blobVideos, hostname) ==
    LET kvVideos == ArrOrEmpty(data, "videos")
        existingUrls == {kvVideos[i].url : i \in DOMAIN kvVideos}
        IsNew(v) == v.url \notin existingUrls
        newUniqueVideos == SelectSeq(directUploads(blobVideos, hostname), IsNew)
    IN  Substring0(SortDesc(newUniqueVideos \o kvVideos, "timestamp"), MaxVideos)

\* one element of `devices` (the display-only fields os, appVersion, ipAddress and userId are left out)
deviceView(data, blobVideos, t) ==
    LET hostname == OrChars(Get(data, "hostname"), <<<<"Unknown">>>>)[1]
    IN  [id |-> data.installId,
         hostname |-> hostname,
         lastSeen |-> IF Has(data, "lastSeen") THEN data.lastSeen ELSE t,
         status |-> statusAt(data, t),
         userName |-> OrStr(Get(data, "userName"), <<"System User">>)[1],
         osVersion |-> OrStr(Get(data, "osVersion"), <<"N/A">>)[1],
         company |-> OrStr(Get(data, "company"), <<"">>)[1],
         appUsage |-> ArrOrEmpty(data, "appUsage"),
         webUsage |-> ArrOrEmpty(data, "webUsage"),
         videos |-> viewVideos(data, blobVideos, hostname),
         lastScreenshot |-> Get(data, "lastScreenshot"),
         lastScreenshotTime |-> Get(data, "lastScreenshotTime")]

\* (mutation of devicesOf: the views stay in the order of the ids)
devicesOfUnsorted(ids, store, blobVideos, t) ==
    LET HasRecord(id) == id \in DOMAIN store
        found == SelectSeq(ids, HasRecord)
    IN  [i \in DOMAIN found |-> deviceView(store[found[i]], blobVideos, t)]

\* results.map(...).filter(Boolean).sort(...), for the ids in the order smembers gave them
devicesOf(ids, store, blobVideos, t) ==
    LET HasRecord(id) == id \in DOMAIN store
        found == SelectSeq(ids, HasRecord)
    IN  SortDesc([i \in DOMAIN found |-> deviceView(store[found[i]], blobVideos, t)], "lastSeen")

----------------------------------------------------------------------------
(* The requests the agents and the dashboard send *)

ID1 == <<"p", "c", "-", "0", "0", "1", "a">>
ID2 == <<"x", "1">>
IDs == {ID1, ID2}

HostH1 == <<"H", "1">>

Names == {"chrome", "word"}
Domains == {"a.com", "b.org"}
Companies == {"Acme"}

AppEntry(n, m) == [name |-> n, usageMinutes |-> JsNum(m)]
WebEntry(d, v, m) == [domain |-> d, visits |-> JsNum(v), usageMinutes |-> JsNum(m)]

PayloadVideo == [url |-> 0, timestamp |-> 0, filename |-> "agent.mp4"]

\* the non-decreasing sequences over 1..n of length at most len
RECURSIVE Ascending(_, _)
Ascending(n, len) ==
    IF len = 0 THEN {<<>>}
    ELSE LET shorter == Ascending(n, len - 1)
         IN  shorter \cup
             {Append(p[1], p[2]) :
                 p \in {q \in shorter \X (1..n) : Len(q[1]) = 0 \/ q[1][Len(q[1])] <= q[2]}}

\* the arrays of at most MaxDeltaLen of the listed entries, in the order listed
ArraysOf(entries) ==
    {[j \in DOMAIN l |-> entries[l[j]]] : l \in Ascending(Len(entries), MaxDeltaLen)}

\* what a payload carries besides installId and hostname
OrderedAppExtras ==
    {[appUsage |-> l] :
        l \in ArraysOf(<<AppEntry("chrome", 5), AppEntry("chrome", 3),
                         AppEntry("word", 2), AppEntry("word", 0), AppEntry("word", 0 - 2)>>)}

OrderedWebExtras ==
    {[webUsage |-> l] : l \in ArraysOf(<<WebEntry("a.com", 2, 1), WebEntry("b.org", 1, 0)>>)}

UsageExtra == [appUsage |-> <<AppEntry("chrome", 5)>>, webUsage |-> <<WebEntry("a.com", 2, 1)>>]

ProtocolExtras ==
    {EmptyObj,
     UsageExtra,
     [videos |-> <<>>],
     [videos |-> <<PayloadVideo>>],
     [company |-> "Evil"],
     [lastScreenshot |-> "img"]}

ClockExtras == {EmptyObj, [status |-> "Offline", lastSeen |-> 0]}

Payload(id, extra) == Spread([installId |-> id, hostname |-> HostH1], extra)

\* a heartbeat request: the x-install-token check, the JSON body, and the KV call that fails (if any)
HeartbeatReq(valid, data, fail) == [token |-> valid, data |-> data, fail |-> fail]

ValidHeartbeats(ids, Extras) ==
    {HeartbeatReq(TRUE, Payload(id, x), "none") : id \in ids, x \in Extras}

RejectedHeartbeats ==
    {HeartbeatReq(FALSE, Payload(ID1, EmptyObj), "none"),
     HeartbeatReq(TRUE, Without(Payload(ID1, EmptyObj), "hostname"), "none"),
     HeartbeatReq(TRUE, Without(Payload(ID1, EmptyObj), "installId"), "none")}

FailedHeartbeats ==
    {HeartbeatReq(TRUE, Payload(ID1, EmptyObj), f) : f \in {"sadd", "get", "set"}}

\* an upload request: token, whether a file part is present, whether the blob put succeeds,
\* the form fields, and the KV call that fails (if any)
UploadReq(valid, file, putOk, fields, fail) ==
    [token |-> valid, file |-> file, putOk |-> putOk, fields |-> fields, fail |-> fail]

ValidUploads ==
    {UploadReq(TRUE, TRUE, TRUE, f, "none") :
        f \in {[installId |-> ID1], [device |-> ID1, timestamp |-> 0, filename |-> "clip.mp4"]}}

RejectedUploads ==
    {UploadReq(FALSE, TRUE, TRUE, [installId |-> ID1], "none"),
     UploadReq(TRUE, FALSE, TRUE, [installId |-> ID1], "none"),
     UploadReq(TRUE, TRUE, TRUE, EmptyObj, "none"),
     UploadReq(TRUE, TRUE, FALSE, [installId |-> ID1], "none")}

\* the put resolves without a url
NoUrlUploads ==
    {Spread(UploadReq(TRUE, TRUE, TRUE, [installId |-> ID1], "none"), [noUrl |-> TRUE])}

FailedUploads ==
    {UploadReq(TRUE, TRUE, TRUE, [installId |-> ID1], f) : f \in {"sadd", "get", "set"}}

----------------------------------------------------------------------------
(* The stores *)

\* kv.get(`device:${id}`) || {}
GetOrEmpty(store, id) == IF id \in DOMAIN store THEN store[id] ELSE EmptyObj

\* kv.set(`device:${id}`, rec)
KvSet(store, id, rec) == [k \in DOMAIN store \cup {id} |-> IF k = id THEN rec ELSE store[k]]

\* (mutation of KvDel: the key is left in place)
KvDelNothing(store, id) == store

\* kv.del(`device:${id}`)
KvDel(store, id) == [k \in DOMAIN store \ {id} |-> store[k]]

\* the object put() stores under recordings/<uniqueName>
BlobOf(url, t) ==
    [url |-> url, parts |-> <<<<"recordings">>, <<"u", "-", "f">>>>,
     nameTime |-> Undefined, uploadedAt |-> t, size |-> 1]

\* a fresh public url
NextUrl == Cardinality(blobs) + 1

\* the response log: the last response (endpoint, status code, device, handling time, the
\* request it answers, the JSON body of a listing) and a summary of the one before it
NoResponse == [op |-> "none", code |-> 0, id |-> Undefined]

Respond(op, code, id, req, body) ==
    resp' = [op |-> op, code |-> code, id |-> id, at |-> now, req |-> req, body |-> body,
             prev |-> [op |-> resp.op, code |-> resp.code, id |-> resp.id]]

----------------------------------------------------------------------------
(* History: what the agents sent, for the accumulation properties *)

\* the minutes an entry carries in its one minutes or seconds field, in units
DeltaSent(e) ==
    IF Has(e, "usageMinutes") THEN (IF e.usageMinutes.num THEN e.usageMinutes.v * UnitsPerMinute ELSE 0)
    ELSE IF Has(e, "usageSeconds") THEN (IF e.usageSeconds.num THEN e.usageSeconds.v * UnitsPerSecond ELSE 0)
    ELSE 0

\* the sum of the strictly positive deltas an array carries for a name
RECURSIVE SumPositive(_, _)
SumPositive(raw, n) ==
    IF raw = <<>> THEN 0
    ELSE (IF Head(raw).name = n /\ DeltaSent(Head(raw)) > 0 THEN DeltaSent(Head(raw)) ELSE 0)
         + SumPositive(Tail(raw), n)

NoneSent == [fresh |-> TRUE, sum |-> [n \in Names |-> 0]]

\* hist after a successful heartbeat
Sent(h, data) ==
    [h EXCEPT !.beats = @ + 1,
              !.sent[data.installId].sum =
                  [n \in Names |-> @[n] + SumPositive(ArrOrEmpty(data, "appUsage"), n)]]

----------------------------------------------------------------------------
(* The handlers, each run from request to response without interleaving *)

InitAnyEnv ==
    /\ device_ids = {}
    /\ kv = EmptyObj
    /\ blobs = {}
    /\ now = 0
    /\ env \in {[kv |-> TRUE, blob |-> TRUE], [kv |-> FALSE, blob |-> TRUE], [kv |-> TRUE, blob |-> FALSE]}
    /\ resp = [op |-> "none", code |-> 0, id |-> Undefined, at |-> 0, req |-> EmptyObj, body |-> <<>>,
               prev |-> NoResponse]
    /\ reqs = <<>>
    /\ hist = [beats |-> 0, sent |-> [id \in IDs |-> NoneSent]]

\* the deployment with both stores configured
Init == InitAnyEnv /\ env = [kv |-> TRUE, blob |-> TRUE]

\* (mutation of Heartbeat: a failing kv.get or kv.set is swallowed and answered with 200)
HeartbeatSwallowsFailure(req) ==
    LET data == req.data
        id == data.installId
    IN
    /\ UNCHANGED <<blobs, now, env, reqs>>
    /\ IF ~req.token
       THEN Respond("heartbeat", 401, Get(data, "installId"), req, <<>>) /\ UNCHANGED <<device_ids, kv, hist>>
       ELSE IF ~env.kv
       THEN Respond("heartbeat", 503, Get(data, "installId"), req, <<>>) /\ UNCHANGED <<device_ids, kv, hist>>
       ELSE IF ~TruthyChars(Get(data, "installId")) \/ ~TruthyChars(Get(data, "hostname"))
       THEN Respond("heartbeat", 400, Get(data, "installId"), req, <<>>) /\ UNCHANGED <<device_ids, kv, hist>>
       ELSE /\ hist.beats < MaxBeats
            /\ IF req.fail = "sadd"
               THEN Respond("heartbeat", 500, Get(data, "installId"), req, <<>>) /\ UNCHANGED <<device_ids, kv, hist>>
               ELSE /\ device_ids' = device_ids \cup {id}
                    /\ IF req.fail \in {"get", "set"}
                       THEN Respond("heartbeat", 200, Get(data, "installId"), req, <<>>) /\ UNCHANGED <<kv, hist>>
                       ELSE /\ kv' = KvSet(kv, id, updatedData(GetOrEmpty(kv, id), data, now))
                            /\ hist' = Sent(hist, data)
                            /\ Respond("heartbeat", 200, Get(data, "installId"), req, <<>>)

\* POST /api/install
Heartbeat(req) ==
    LET data == req.data
        id == data.installId
    IN
    /\ UNCHANGED <<blobs, now, env, reqs>>
    /\ IF ~req.token
       THEN Respond("heartbeat", 401, Get(data, "installId"), req, <<>>) /\ UNCHANGED <<device_ids, kv, hist>>
       ELSE IF ~env.kv
       THEN Respond("heartbeat", 503, Get(data, "installId"), req, <<>>) /\ UNCHANGED <<device_ids, kv, hist>>
       ELSE IF ~TruthyChars(Get(data, "installId")) \/ ~TruthyChars(Get(data, "hostname"))
       THEN Respond("heartbeat", 400, Get(data, "installId"), req, <<>>) /\ UNCHANGED <<device_ids, kv, hist>>
       ELSE /\ hist.beats < MaxBeats
            /\ IF req.fail = "sadd"
               THEN Respond("heartbeat", 500, Get(data, "installId"), req, <<>>) /\ UNCHANGED <<device_ids, kv, hist>>
               ELSE /\ device_ids' = device_ids \cup {id}
                    /\ IF req.fail \in {"get", "set"}
                       THEN Respond("heartbeat", 500, Get(data, "installId"), req, <<>>) /\ UNCHANGED <<kv, hist>>
                       ELSE /\ kv' = KvSet(kv, id, updatedData(GetOrEmpty(kv, id), data, now))
                            /\ hist' = Sent(hist, data)
                            /\ Respond("heartbeat", 200, Get(data, "installId"), req, <<>>)

\* (mutation of Upload: the id is added to device_ids before the blob put is awaited)
UploadRegistersBeforePut(req) ==
    LET deviceId == deviceIdOf(req.fields)
        videoUrl == NextUrl
        stored == blobs \cup {BlobOf(videoUrl, now)}
    IN
    /\ UNCHANGED <<now, env, reqs, hist>>
    /\ IF ~req.token
       THEN Respond("upload", 401, deviceId, req, <<>>) /\ UNCHANGED <<device_ids, kv, blobs>>
       ELSE IF ~env.kv
       THEN Respond("upload", 503, deviceId, req, <<>>) /\ UNCHANGED <<device_ids, kv, blobs>>
       ELSE IF ~env.blob
       THEN Respond("upload", 500, deviceId, req, <<>>) /\ UNCHANGED <<device_ids, kv, blobs>>
       ELSE IF ~req.file
       THEN Respond("upload", 400, deviceId, req, <<>>) /\ UNCHANGED <<device_ids, kv, blobs>>
       ELSE IF ~req.putOk
       THEN /\ Respond("upload", 500, deviceId, req, <<>>)
            /\ device_ids' = device_ids \cup {deviceId[1]}
            /\ UNCHANGED <<kv, blobs>>
       ELSE /\ Cardinality(blobs) < MaxUploads
            /\ blobs' = stored
            /\ IF ~TruthyChars(deviceId)
               THEN Respond("upload", 400, deviceId, req, <<>>) /\ UNCHANGED <<device_ids, kv>>
               ELSE IF Has(req, "noUrl")
               THEN Respond("upload", 500, deviceId, req, <<>>) /\ UNCHANGED <<device_ids, kv>>
               ELSE IF req.fail = "sadd"
               THEN Respond("upload", 500, deviceId, req, <<>>) /\ UNCHANGED <<device_ids, kv>>
               ELSE /\ device_ids' = device_ids \cup {deviceId[1]}
                    /\ IF req.fail \in {"get", "set"}
                       THEN Respond("upload", 500, deviceId, req, <<>>) /\ UNCHANGED kv
                       ELSE /\ kv' = KvSet(kv, deviceId[1],
                                           uploadedDevice(GetOrEmpty(kv, deviceId[1]), deviceId[1],
                                                          newVideo(videoUrl, req.fields, now), now))
                            /\ Respond("upload", 200, deviceId, [req EXCEPT !.fields = Spread(@, [url |-> videoUrl])], <<>>)

\* POST /api/upload
Upload(req) ==
    LET deviceId == deviceIdOf(req.fields)
        videoUrl == NextUrl
        stored == blobs \cup {BlobOf(videoUrl, now)}
    IN
    /\ UNCHANGED <<now, env, reqs, hist>>
    /\ IF ~req.token
       THEN Respond("upload", 401, deviceId, req, <<>>) /\ UNCHANGED <<device_ids, kv, blobs>>
       ELSE IF ~env.kv
       THEN Respond("upload", 503, deviceId, req, <<>>) /\ UNCHANGED <<device_ids, kv, blobs>>
       ELSE IF ~env.blob
       THEN Respond("upload", 500, deviceId, req, <<>>) /\ UNCHANGED <<device_ids, kv, blobs>>
       ELSE IF ~req.file
       THEN Respond("upload", 400, deviceId, req, <<>>) /\ UNCHANGED <<device_ids, kv, blobs>>
       ELSE IF ~req.putOk
       THEN Respond("upload", 500, deviceId, req, <<>>) /\ UNCHANGED <<device_ids, kv, blobs>>
       ELSE /\ Cardinality(blobs) < MaxUploads
            /\ blobs' = stored
            /\ IF ~TruthyChars(deviceId)
               THEN Respond("upload", 400, deviceId, req, <<>>) /\ UNCHANGED <<device_ids, kv>>
               ELSE IF Has(req, "noUrl")
               THEN Respond("upload", 500, deviceId, req, <<>>) /\ UNCHANGED <<device_ids, kv>>
               ELSE IF req.fail = "sadd"
               THEN Respond("upload", 500, deviceId, req, <<>>) /\ UNCHANGED <<device_ids, kv>>
               ELSE /\ device_ids' = device_ids \cup {deviceId[1]}
                    /\ IF req.fail \in {"get", "set"}
                       THEN Respond("upload", 500, deviceId, req, <<>>) /\ UNCHANGED kv
                       ELSE /\ kv' = KvSet(kv, deviceId[1],
                                           uploadedDevice(GetOrEmpty(kv, deviceId[1]), deviceId[1],
                                                          newVideo(videoUrl, req.fields, now), now))
                            /\ Respond("upload", 200, deviceId, [req EXCEPT !.fields = Spread(@, [url |-> videoUrl])], <<>>)

\* (mutation of DeleteDevice: an id without a record is answered 404)
DeleteDeviceNeedsRecord(id, fail) ==
    LET req == [id |-> id, fail |-> fail]
    IN
    /\ UNCHANGED <<blobs, now, env, reqs>>
    /\ IF ~env.kv
       THEN Respond("delete", 200, <<id>>, req, <<>>) /\ UNCHANGED <<device_ids, kv, hist>>
       ELSE IF id \notin DOMAIN kv
       THEN Respond("delete", 404, <<id>>, req, <<>>) /\ UNCHANGED <<device_ids, kv, hist>>
       ELSE IF fail = "srem"
       THEN Respond("delete", 500, <<id>>, req, <<>>) /\ UNCHANGED <<device_ids, kv, hist>>
       ELSE /\ device_ids' = device_ids \ {id}
            /\ IF fail = "del"
               THEN Respond("delete", 500, <<id>>, req, <<>>) /\ UNCHANGED <<kv, hist>>
               ELSE /\ kv' = KvDel(kv, id)
                    /\ hist' = [hist EXCEPT !.sent[id] = NoneSent]
                    /\ Respond("delete", 200, <<id>>, req, <<>>)

\* DELETE /api/devices?id=
DeleteDevice(id, fail) ==
    LET req == [id |-> id, fail |-> fail]
    IN
    /\ UNCHANGED <<blobs, now, env, reqs>>
    /\ IF ~env.kv
       THEN Respond("delete", 200, <<id>>, req, <<>>) /\ UNCHANGED <<device_ids, kv, hist>>
       ELSE IF fail = "srem"
       THEN Respond("delete", 500, <<id>>, req, <<>>) /\ UNCHANGED <<device_ids, kv, hist>>
       ELSE /\ device_ids' = device_ids \ {id}
            /\ IF fail = "del"
               THEN Respond("delete", 500, <<id>>, req, <<>>) /\ UNCHANGED <<kv, hist>>
               ELSE /\ kv' = KvDel(kv, id)
                    /\ hist' = [hist EXCEPT !.sent[id] = NoneSent]
                    /\ Respond("delete", 200, <<id>>, req, <<>>)

\* (mutation of ResetAnalytics: the reset deletes the record instead of rewriting it)
ResetAnalyticsDeletesRecord(id, fail) ==
    LET req == [id |-> id, fail |-> fail]
    IN
    /\ UNCHANGED <<device_ids, blobs, now, env, reqs>>
    /\ IF ~env.kv
       THEN Respond("reset", 200, <<id>>, req, <<>>) /\ UNCHANGED <<kv, hist>>
       ELSE IF fail = "get"
       THEN Respond("reset", 500, <<id>>, req, <<>>) /\ UNCHANGED <<kv, hist>>
       ELSE IF id \notin DOMAIN kv
       THEN Respond("reset", 404, <<id>>, req, <<>>) /\ UNCHANGED <<kv, hist>>
       ELSE IF fail = "set"
       THEN Respond("reset", 500, <<id>>, req, <<>>) /\ UNCHANGED <<kv, hist>>
       ELSE /\ kv' = KvDel(kv, id)
            /\ hist' = [hist EXCEPT !.sent[id].fresh = FALSE]
            /\ Respond("reset", 200, <<id>>, req, <<>>)

\* DELETE /api/devices?id=&action=reset_analytics
ResetAnalytics(id, fail) ==
    LET req == [id |-> id, fail |-> fail]
    IN
    /\ UNCHANGED <<device_ids, blobs, now, env, reqs>>
    /\ IF ~env.kv
       THEN Respond("reset", 200, <<id>>, req, <<>>) /\ UNCHANGED <<kv, hist>>
       ELSE IF fail = "get"
       THEN Respond("reset", 500, <<id>>, req, <<>>) /\ UNCHANGED <<kv, hist>>
       ELSE IF id \notin DOMAIN kv
       THEN Respond("reset", 404, <<id>>, req, <<>>) /\ UNCHANGED <<kv, hist>>
       ELSE IF fail = "set"
       THEN Respond("reset", 500, <<id>>, req, <<>>) /\ UNCHANGED <<kv, hist>>
       ELSE /\ kv' = KvSet(kv, id, resetData(kv[id]))
            /\ hist' = [hist EXCEPT !.sent[id].fresh = FALSE]
            /\ Respond("reset", 200, <<id>>, req, <<>>)

\* PATCH /api/devices {id, company}
AssignCompany(id, company, fail) ==
    LET req == [id |-> id, company |-> company, fail |-> fail]
    IN
    /\ UNCHANGED <<device_ids, blobs, now, env, reqs, hist>>
    /\ IF ~env.kv
       THEN Respond("assign", 200, <<id>>, req, <<>>) /\ UNCHANGED kv
       ELSE IF fail = "get"
       THEN Respond("assign", 500, <<id>>, req, <<>>) /\ UNCHANGED kv
       ELSE IF id \notin DOMAIN kv
       THEN Respond("assign", 404, <<id>>, req, <<>>) /\ UNCHANGED kv
       ELSE IF fail = "set"
       THEN Respond("assign", 500, <<id>>, req, <<>>) /\ UNCHANGED kv
       ELSE /\ kv' = KvSet(kv, id, companyData(kv[id], company))
            /\ Respond("assign", 200, <<id>>, req, <<>>)

\* the orders in which smembers / list can return the elements of a set
Orders(S) == {f \in [1..Cardinality(S) -> S] : \A i, j \in 1..Cardinality(S) : f[i] = f[j] => i = j}

\* GET /api/devices
ListDevices(ids, blobVideos) ==
    LET req == EmptyObj
    IN
    /\ UNCHANGED <<device_ids, kv, blobs, now, env, reqs, hist>>
    /\ IF ~env.kv
       THEN Respond("list", 200, Undefined, req, <<>>)
       ELSE Respond("list", 200, Undefined, req,
                    devicesOf(ids, kv, IF env.blob THEN blobVideos ELSE <<>>, now))

\* time passes
Tick ==
    /\ now < MaxTime
    /\ now' = now + 1
    /\ UNCHANGED <<device_ids, kv, blobs, env, resp, reqs, hist>>

\* the dashboard's requests, with the KV call that fails (if any)
AdminReqs(Fails) == {[id |-> ID1, fail |-> f] : f \in {"none"} \cup Fails}

Deletes(Fails) == \E r \in AdminReqs(Fails) : DeleteDevice(r.id, r.fail)

Resets(Fails) == \E r \in AdminReqs(Fails) : ResetAnalytics(r.id, r.fail)

Assigns(Fails) ==
    \E r \in AdminReqs(Fails), c \in {<<x>> : x \in Companies} \cup {Undefined} :
        AssignCompany(r.id, c, r.fail)

Lists == \E ids \in Orders(device_ids), bl \in Orders(blobs) : ListDevices(ids, bl)

ProtocolHeartbeats == ValidHeartbeats({ID1}, ProtocolExtras)
UsageHeartbeats == ValidHeartbeats({ID1}, OrderedAppExtras \cup OrderedWebExtras \cup {UsageExtra})
ClockHeartbeats == ValidHeartbeats({ID1}, ClockExtras) \cup ValidHeartbeats({ID2}, {EmptyObj})
ClockUploads == {UploadReq(TRUE, TRUE, TRUE, [installId |-> ID1], "none")}
ErrorHeartbeats == ValidHeartbeats({ID1}, {EmptyObj}) \cup RejectedHeartbeats \cup FailedHeartbeats
ErrorUploads == ValidUploads \cup RejectedUploads \cup FailedUploads \cup NoUrlUploads

\* the protocol: every endpoint, requests that pass validation, stores that answer
Next ==
    \/ \E req \in ProtocolHeartbeats : Heartbeat(req)
    \/ \E req \in ValidUploads : Upload(req)
    \/ Deletes({})
    \/ Resets({})
    \/ Assigns({})
    \/ Lists

Spec == Init /\ [][Next]_vars

\* accumulation: sequences of heartbeats carrying usage arrays
NextUsage ==
    \/ \E req \in UsageHeartbeats : Heartbeat(req)
    \/ Resets({})
    \/ Deletes({})

SpecUsage == Init /\ [][NextUsage]_vars

\* the clock: last-seen times and the derived status
NextClock ==
    \/ \E req \in ClockHeartbeats : Heartbeat(req)
    \/ \E req \in ClockUploads : Upload(req)
    \/ Lists
    \/ Tick

SpecClock == Init /\ [][NextClock]_vars

\* errors: rejected requests, unconfigured stores, failing KV and blob calls
NextErrors ==
    \/ \E req \in ErrorHeartbeats : Heartbeat(req)
    \/ \E req \in ErrorUploads : Upload(req)
    \/ Deletes({"del"})
    \/ Resets({"set"})
    \/ Assigns({"set"})
    \/ Lists

SpecErrors == InitAnyEnv /\ [][NextErrors]_vars

----------------------------------------------------------------------------
(* The handlers step by step: every awaited KV or blob call is one step, and the steps of
   requests in progress interleave. reqs maps each request in progress to its position
   and to what it has read; the response log keeps, with the request, the record the
   handler had read (read). *)

MaxInFlight == 2      \* requests in progress at the same time

Running(p) == p \in DOMAIN reqs

At(p, pc) == Running(p) /\ reqs[p].pc = pc

CanStart(p) == ~Running(p) /\ Cardinality(DOMAIN reqs) < MaxInFlight

Goto(p, r) == reqs' = [q \in DOMAIN reqs \cup {p} |-> IF q = p THEN r ELSE reqs[q]]

Done(p) == reqs' = [q \in DOMAIN reqs \ {p} |-> reqs[q]]

\* The steps of a heartbeat, run by the request in progress p.
\* POST /api/install: await kv.sadd('device_ids', data.installId)
HeartbeatSaddAs(p, data) ==
    /\ CanStart(p)
    /\ hist.beats < MaxBeats
    /\ device_ids' = device_ids \cup {data.installId}
    /\ Goto(p, [pc |-> "get", data |-> data])
    /\ UNCHANGED <<kv, blobs, now, env, resp, hist>>

\* const existingData = await kv.get(key) || {}
HeartbeatGetAs(p) ==
    /\ At(p, "get")
    /\ Goto(p, [pc |-> "set", data |-> reqs[p].data,
                 existingData |-> GetOrEmpty(kv, reqs[p].data.installId)])
    /\ UNCHANGED <<device_ids, kv, blobs, now, env, resp, hist>>

\* (mutation of HeartbeatSetAs: the merge starts from the record as it is when the write
\* happens, not from the record that was read)
HeartbeatSetOnCurrent(p) ==
    /\ At(p, "set")
    /\ LET r == reqs[p]
       IN  /\ kv' = KvSet(kv, r.data.installId,
                          updatedData(GetOrEmpty(kv, r.data.installId), r.data, now))
           /\ hist' = Sent(hist, r.data)
           /\ Respond("heartbeat", 200, <<r.data.installId>>,
                      Spread(HeartbeatReq(TRUE, r.data, "none"), [read |-> r.existingData]), <<>>)
    /\ Done(p)
    /\ UNCHANGED <<device_ids, blobs, now, env>>

\* await kv.set(key, updatedData); 200
HeartbeatSetAs(p) ==
    /\ At(p, "set")
    /\ LET r == reqs[p]
       IN  /\ kv' = KvSet(kv, r.data.installId, updatedData(r.existingData, r.data, now))
           /\ hist' = Sent(hist, r.data)
           /\ Respond("heartbeat", 200, <<r.data.installId>>,
                      Spread(HeartbeatReq(TRUE, r.data, "none"), [read |-> r.existingData]), <<>>)
    /\ Done(p)
    /\ UNCHANGED <<device_ids, blobs, now, env>>

\* The steps of an upload, run by the request in progress p; at most `limit` objects are
\* stored in one run.
\* POST /api/upload: await fileUploadPromise (the put of the file part)
UploadPut(p, fields, limit) ==
    /\ CanStart(p)
    /\ Cardinality(blobs) < limit
    /\ TruthyChars(deviceIdOf(fields))
    /\ blobs' = blobs \cup {BlobOf(NextUrl, now)}
    /\ Goto(p, [pc |-> "sadd", fields |-> fields, videoUrl |-> NextUrl])
    /\ UNCHANGED <<device_ids, kv, now, env, resp, hist>>

\* await kv.sadd('device_ids', deviceId)
UploadSadd(p) ==
    /\ At(p, "sadd")
    /\ device_ids' = device_ids \cup {deviceIdOf(reqs[p].fields)[1]}
    /\ Goto(p, [reqs[p] EXCEPT !.pc = "get"])
    /\ UNCHANGED <<kv, blobs, now, env, resp, hist>>

\* const existingDevice = await kv.get(deviceKey) || {}
UploadGet(p) ==
    /\ At(p, "get")
    /\ LET r == reqs[p]
       IN  Goto(p, [pc |-> "set", fields |-> r.fields, videoUrl |-> r.videoUrl,
                           existingDevice |-> GetOrEmpty(kv, deviceIdOf(r.fields)[1])])
    /\ UNCHANGED <<device_ids, kv, blobs, now, env, resp, hist>>

\* (mutation of UploadSet: the video is added to the record as it is when the write
\* happens, not to the record that was read)
UploadSetOnCurrent(p) ==
    /\ At(p, "set")
    /\ LET r == reqs[p]
           deviceId == deviceIdOf(r.fields)[1]
       IN  /\ kv' = KvSet(kv, deviceId,
                          uploadedDevice(GetOrEmpty(kv, deviceId), deviceId,
                                         newVideo(r.videoUrl, r.fields, now), now))
           /\ Respond("upload", 200, <<deviceId>>,
                      Spread(UploadReq(TRUE, TRUE, TRUE, Spread(r.fields, [url |-> r.videoUrl]), "none"),
                             [read |-> r.existingDevice]), <<>>)
    /\ Done(p)
    /\ UNCHANGED <<device_ids, blobs, now, env, hist>>

\* await kv.set(deviceKey, {...baseDevice, videos}); 200
UploadSet(p) ==
    /\ At(p, "set")
    /\ LET r == reqs[p]
           deviceId == deviceIdOf(r.fields)[1]
       IN  /\ kv' = KvSet(kv, deviceId,
                          uploadedDevice(r.existingDevice, deviceId,
                                         newVideo(r.videoUrl, r.fields, now), now))
           /\ Respond("upload", 200, <<deviceId>>,
                      Spread(UploadReq(TRUE, TRUE, TRUE, Spread(r.fields, [url |-> r.videoUrl]), "none"),
                             [read |-> r.existingDevice]), <<>>)
    /\ Done(p)
    /\ UNCHANGED <<device_ids, blobs, now, env, hist>>

\* DELETE /api/devices?id=: await kv.srem('device_ids', id)
DeleteSrem(id) ==
    /\ CanStart("delete")
    /\ device_ids' = device_ids \ {id}
    /\ Goto("delete", [pc |-> "del", id |-> id])
    /\ UNCHANGED <<kv, blobs, now, env, resp, hist>>

\* await kv.del(`device:${id}`); 200
DeleteDel ==
    /\ At("delete", "del")
    /\ LET id == reqs["delete"].id
       IN  /\ kv' = KvDel(kv, id)
           /\ hist' = [hist EXCEPT !.sent[id] = NoneSent]
           /\ Respond("delete", 200, <<id>>, [id |-> id, fail |-> "none"], <<>>)
    /\ Done("delete")
    /\ UNCHANGED <<device_ids, blobs, now, env>>

\* DELETE ?action=reset_analytics: const existing = await kv.get(key); 404 if there is none
ResetGet(id) ==
    /\ CanStart("reset")
    /\ IF id \in DOMAIN kv
       THEN Goto("reset", [pc |-> "set", id |-> id, existing |-> kv[id]]) /\ UNCHANGED resp
       ELSE Respond("reset", 404, <<id>>, [id |-> id, fail |-> "none"], <<>>) /\ UNCHANGED reqs
    /\ UNCHANGED <<device_ids, kv, blobs, now, env, hist>>

\* await kv.set(key, {...existing, appUsage: [], webUsage: []}); 200
ResetSet ==
    /\ At("reset", "set")
    /\ LET r == reqs["reset"]
       IN  /\ kv' = KvSet(kv, r.id, resetData(r.existing))
           /\ hist' = [hist EXCEPT !.sent[r.id].fresh = FALSE]
           /\ Respond("reset", 200, <<r.id>>, [id |-> r.id, fail |-> "none"], <<>>)
    /\ Done("reset")
    /\ UNCHANGED <<device_ids, blobs, now, env>>

\* PATCH: const existingData = await kv.get(key); 404 if there is none
AssignGet(id, company) ==
    /\ CanStart("assign")
    /\ IF id \in DOMAIN kv
       THEN Goto("assign", [pc |-> "set", id |-> id, company |-> company, existingData |-> kv[id]])
            /\ UNCHANGED resp
       ELSE Respond("assign", 404, <<id>>, [id |-> id, company |-> company, fail |-> "none"], <<>>)
            /\ UNCHANGED reqs
    /\ UNCHANGED <<device_ids, kv, blobs, now, env, hist>>

\* await kv.set(key, {...existingData, company}); 200
AssignSet ==
    /\ At("assign", "set")
    /\ LET r == reqs["assign"]
       IN  /\ kv' = KvSet(kv, r.id, companyData(r.existingData, r.company))
           /\ Respond("assign", 200, <<r.id>>,
                      [id |-> r.id, company |-> r.company, fail |-> "none"], <<>>)
    /\ Done("assign")
    /\ UNCHANGED <<device_ids, blobs, now, env, hist>>

\* concurrency: the steps of overlapping requests on one device
NextConc ==
    \/ HeartbeatSaddAs("heartbeat", Payload(ID1, EmptyObj))
    \/ HeartbeatGetAs("heartbeat")
    \/ HeartbeatSetAs("heartbeat")
    \/ UploadPut("upload", [installId |-> ID1], MaxUploads)
    \/ UploadSadd("upload")
    \/ UploadGet("upload")
    \/ UploadSet("upload")
    \/ DeleteSrem(ID1)
    \/ DeleteDel
    \/ ResetGet(ID1)
    \/ ResetSet
    \/ AssignGet(ID1, <<"Acme">>)
    \/ AssignSet

SpecConc == Init /\ [][NextConc]_vars

\* merging: single heartbeats carrying usage entries of every shape
MergeHeartbeats ==
    ValidHeartbeats({ID1},
        {[appUsage |-> l] :
            l \in ArraysOf(<<AppEntry("chrome", 5), AppEntry("word", 0 - 2),
                             [name |-> "word", usageMinutes |-> JsNaNStr],
                             [name |-> "chrome", usageSeconds |-> JsNum(120)],
                             [name |-> "chrome"]>>)}
        \cup
        {[webUsage |-> l] :
            l \in ArraysOf(<<WebEntry("a.com", 2, 1), WebEntry("a.com", 0 - 1, 0 - 1),
                             [domain |-> "a.com", visits |-> JsNum(5000), usageMinutes |-> JsNum(0),
                              category |-> "Work"],
                             [domain |-> "b.org", visits |-> JsNaNStr, usageSeconds |-> JsNum(90),
                              category |-> "News"],
                             [domain |-> "b.org", usageMinutes |-> JsNaNStr]>>)})

NextMerge == \E req \in MergeHeartbeats : Heartbeat(req)

SpecMerge == Init /\ [][NextMerge]_vars

\* videos: lists of every length around the cap, as a heartbeat payload can carry them
VideoList(n) == [i \in 1..n |-> [url |-> 100 + i, timestamp |-> 0, filename |-> "agent.mp4"]]

VideoExtras ==
    {EmptyObj} \cup {[videos |-> VideoList(n)] : n \in {MaxVideos - 1, MaxVideos, MaxVideos + 1}}

VideoHeartbeats == ValidHeartbeats({ID1}, VideoExtras)

NextVideos ==
    \/ \E req \in VideoHeartbeats : Heartbeat(req)
    \/ \E req \in ValidUploads : Upload(req)
    \/ Deletes({})
    \/ Lists

SpecVideos == Init /\ [][NextVideos]_vars

\* the fleet: two devices, every endpoint, and the failures that leave a membership
\* without a record (heartbeat whose kv.get fails) or a record without a membership
\* (delete whose kv.del fails)
FleetHeartbeats ==
    ValidHeartbeats(IDs, {EmptyObj, UsageExtra})
    \cup {HeartbeatReq(TRUE, Payload(ID1, EmptyObj), "get")}

NextFleet ==
    \/ \E req \in FleetHeartbeats : Heartbeat(req)
    \/ \E req \in ClockUploads : Upload(req)
    \/ \E id \in IDs, fail \in {"none", "del"} : DeleteDevice(id, fail)
    \/ \E id \in IDs : ResetAnalytics(id, "none")
    \/ \E id \in IDs : AssignCompany(id, <<"Acme">>, "none")

SpecFleet == Init /\ [][NextFleet]_vars

\* the legacy fallback: website entries on both sides of its condition
LegacyEntry == [domain |-> "a.com", visits |-> JsNum(5000), usageMinutes |-> JsNum(0)]

LegacyHeartbeats ==
    ValidHeartbeats({ID1},
        {[webUsage |-> l] :
            l \in ArraysOf(<<WebEntry("a.com", 2, 1),
                             LegacyEntry,
                             WebEntry("a.com", 5000, 1),
                             WebEntry("b.org", 1000, 0),
                             [domain |-> "b.org", visits |-> JsNum(2000)]>>)})

NextLegacy == \E req \in LegacyHeartbeats : Heartbeat(req)

SpecLegacy == Init /\ [][NextLegacy]_vars

\* screenshots: payloads with a screenshot, with an empty one, with a lastScreenshotTime of
\* their own (a time that is never a handling time), and with neither
ShotExtras ==
    {EmptyObj,
     [lastScreenshot |-> "img1"],
     [lastScreenshot |-> "img2"],
     [lastScreenshot |-> ""],
     [lastScreenshotTime |-> 0 - 1],
     [lastScreenshot |-> "", lastScreenshotTime |-> 0 - 1],
     [lastScreenshot |-> "img1", lastScreenshotTime |-> 0 - 1]}

ShotHeartbeats == ValidHeartbeats({ID1}, ShotExtras)

NextShots ==
    \/ \E req \in ShotHeartbeats : Heartbeat(req)
    \/ \E req \in ClockUploads : Upload(req)
    \/ Tick

SpecShots == Init /\ [][NextShots]_vars

\* lost updates: two heartbeats and an upload for one device, every heartbeat carrying
\* positive deltas
RaceExtras ==
    {UsageExtra,
     [appUsage |-> <<AppEntry("word", 2)>>],
     [appUsage |-> <<AppEntry("chrome", 3)>>, webUsage |-> <<WebEntry("b.org", 1, 0)>>]}

HeartbeatSlots == {"heartbeat", "heartbeat2"}

NextRace ==
    \/ \E p \in HeartbeatSlots, x \in RaceExtras : HeartbeatSaddAs(p, Payload(ID1, x))
    \/ \E p \in HeartbeatSlots : HeartbeatGetAs(p)
    \/ \E p \in HeartbeatSlots : HeartbeatSetAs(p)
    \/ UploadPut("upload", [installId |-> ID1], MaxUploads)
    \/ UploadSadd("upload")
    \/ UploadGet("upload")
    \/ UploadSet("upload")

SpecRace == Init /\ [][NextRace]_vars

\* the listing: two devices that send heartbeats at different times, a third whose
\* heartbeat fails after its id was registered, and a delete whose kv.del can fail
ID3 == <<"y", "2">>

ListHeartbeats ==
    ValidHeartbeats(IDs, {EmptyObj})
    \cup {HeartbeatReq(TRUE, Payload(ID3, EmptyObj), "get")}

NextList ==
    \/ \E req \in ListHeartbeats : Heartbeat(req)
    \/ Deletes({"del"})
    \/ Lists
    \/ Tick

SpecList == Init /\ [][NextList]_vars

\* aliases: entries that carry more than one of the minutes and seconds fields, or one
\* under an alias spelling
AliasAppEntries ==
    <<[name |-> "chrome", usageMinutes |-> JsNum(0), usageSeconds |-> JsNum(120)],
      [name |-> "chrome", usage_minutes |-> JsNum(3)],
      [name |-> "word", usageSeconds |-> JsNum(90), usage_seconds |-> JsNum(30)],
      [name |-> "word", usageMinutes |-> JsNum(2), usage_seconds |-> JsNum(600)]>>

AliasWebEntries ==
    <<[domain |-> "a.com", visits |-> JsNum(1), usageMinutes |-> JsNum(0), usage_seconds |-> JsNum(60)],
      [domain |-> "a.com", visits |-> JsNum(2), usage_minutes |-> JsNum(1)]>>

AliasEntryExtras ==
    {[appUsage |-> l] : l \in ArraysOf(AliasAppEntries)}
    \cup {[webUsage |-> l] : l \in ArraysOf(AliasWebEntries)}

\* the same two arrays under each spelling of the array's key
AliasKeyExtras ==
    {[k \in {key} |-> <<AppEntry("chrome", 5)>>] : key \in {"appUsage", "AppUsage", "app_usage"}}
    \cup {[k \in {key} |-> <<WebEntry("a.com", 2, 1)>>] : key \in {"webUsage", "WebUsage", "web_usage"}}

AliasHeartbeats == ValidHeartbeats({ID1}, AliasEntryExtras \cup AliasKeyExtras)

NextAlias == \E req \in AliasHeartbeats : Heartbeat(req)

SpecAlias == Init /\ [][NextAlias]_vars

\* categories: deltas for one domain with different categories, with an empty one and
\* with none
CategoryEntry(d, c) == Spread(WebEntry(d, 1, 1), [category |-> c])

CategoryHeartbeats ==
    ValidHeartbeats({ID1},
        {[webUsage |-> l] :
            l \in ArraysOf(<<WebEntry("a.com", 1, 1),
                             CategoryEntry("a.com", "Work"),
                             CategoryEntry("a.com", "News"),
                             CategoryEntry("a.com", ""),
                             CategoryEntry("b.org", "News")>>)})

NextCategory ==
    \/ \E req \in CategoryHeartbeats : Heartbeat(req)
    \/ Resets({})

SpecCategory == Init /\ [][NextCategory]_vars

\* malformed numbers: entries whose minutes, seconds or visits are missing or are
\* non-numeric strings, next to well-formed ones
MalformedHeartbeats ==
    ValidHeartbeats({ID1},
        {[appUsage |-> l] :
            l \in ArraysOf(<<AppEntry("chrome", 5),
                             [name |-> "chrome"],
                             [name |-> "chrome", usageMinutes |-> JsNaNStr],
                             [name |-> "word", usageSeconds |-> JsNaNStr],
                             [name |-> "word", usageMinutes |-> JsNaNStr, usageSeconds |-> JsNum(120)]>>)}
        \cup
        {[webUsage |-> l] :
            l \in ArraysOf(<<WebEntry("a.com", 2, 1),
                             [domain |-> "a.com"],
                             [domain |-> "a.com", visits |-> JsNaNStr, usageMinutes |-> JsNum(1)],
                             [domain |-> "b.org", visits |-> JsNum(2), usageSeconds |-> JsNaNStr],
                             [domain |-> "b.org", visits |-> JsNaNStr, usageMinutes |-> JsNaNStr]>>)})

NextMalformed == \E req \in MalformedHeartbeats : Heartbeat(req)

SpecMalformed == Init /\ [][NextMalformed]_vars

\* direct uploads: agents put recordings into the blob store themselves, under
\* recordings/<folder>/<file>, and report videos in their heartbeats
MaxBlobs == 2

\* the object an agent stores: in the device's folder (in either case) or in another one,
\* with or without a time in the file name
AgentBlob(url, folder, nameTime, t) ==
    [url |-> url, parts |-> <<<<"recordings">>, folder, <<"f">>>>,
     nameTime |-> nameTime, uploadedAt |-> t, size |-> 1]

AgentPut(folder, nameTime) ==
    /\ Cardinality(blobs) < MaxBlobs
    /\ blobs' = blobs \cup {AgentBlob(NextUrl, folder, nameTime, now)}
    /\ UNCHANGED <<device_ids, kv, now, env, resp, reqs, hist>>

\* payload video lists: the url of a stored object, the same entry twice, two entries
\* oldest first, and lists that fill the view
BlobHeartbeats ==
    ValidHeartbeats({ID1},
        {EmptyObj,
         [videos |-> <<[PayloadVideo EXCEPT !.url = 1, !.timestamp = 2]>>],
         [videos |-> <<[PayloadVideo EXCEPT !.url = 1, !.timestamp = 2],
                       [PayloadVideo EXCEPT !.url = 1, !.timestamp = 2]>>],
         [videos |-> <<[PayloadVideo EXCEPT !.url = 7],
                       [PayloadVideo EXCEPT !.url = 8, !.timestamp = 5]>>],
         [videos |-> VideoList(MaxVideos - 1)]})

NextBlobs ==
    \/ \E req \in BlobHeartbeats : Heartbeat(req)
    \/ \E b \in {<<HostH1, Undefined>>, <<<<"h", "1">>, <<3>>>>, <<<<"x">>, Undefined>>} :
          AgentPut(b[1], b[2])
    \/ Lists

SpecBlobs == Init /\ [][NextBlobs]_vars

(* Overlapping uploads and a heartbeat on one device, with the clock running *)

NextOverlap ==
    \/ HeartbeatSaddAs("heartbeat", Payload(ID1, EmptyObj))
    \/ HeartbeatGetAs("heartbeat")
    \/ HeartbeatSetAs("heartbeat")
    \/ \E p \in {"upload", "upload2"} :
          \/ UploadPut(p, [installId |-> ID1], MaxInFlight)
          \/ UploadSadd(p)
          \/ UploadGet(p)
          \/ UploadSet(p)
    \/ Tick

SpecOverlap == Init /\ [][NextOverlap]_vars

(* Heartbeats without usage on a device that has usage, with the clock running *)

NextFrame ==
    \/ \E x \in {UsageExtra,
                 EmptyObj,
                 [appUsage |-> <<>>, webUsage |-> <<>>],
                 [app_usage |-> <<>>, userName |-> "bob", osVersion |-> "11"],
                 [userName |-> "amy", hostname |-> <<"H", "2">>],
                 [userName |-> ""]} :
          Heartbeat(HeartbeatReq(TRUE, Payload(ID1, x), "none"))
    \/ Tick

SpecFrame == Init /\ [][NextFrame]_vars

----------------------------------------------------------------------------
(* Properties *)

Minutes(m) == m * UnitsPerMinute

\* the aggregate holds exactly the names with a positive sum, each once, with that sum
AppAggregateIs(apps, sum) ==
    /\ \A n \in Names :
          IF sum[n] > 0
          THEN \E i \in DOMAIN apps : apps[i].name = n /\ apps[i].usageMinutes = sum[n]
          ELSE \A i \in DOMAIN apps : apps[i].name # n
    /\ \A i, j \in DOMAIN apps : apps[i].name = apps[j].name => i = j
    /\ \A i \in DOMAIN apps : apps[i].name \in Names

\* C1: after any sequence of non-overlapping successful heartbeats for an installId that
\* was unknown before them, the stored appUsage has, for each app name, one entry whose
\* usageMinutes is the sum of the strictly positive deltas sent for that name (repeated
\* names inside one payload included), and no entry for a name whose deltas were all
\* zero or negative.
C1_SumOfPositiveDeltas ==
    \A id \in DOMAIN kv :
        hist.sent[id].fresh => AppAggregateIs(kv[id].appUsage, hist.sent[id].sum)

\* heartbeat A {chrome: 5} then heartbeat B {chrome: 3, word: 2} has given {chrome: 8, word: 2}
C1_Witness ==
    /\ resp.op = "heartbeat" /\ resp.code = 200 /\ resp.prev.op = "heartbeat"
    /\ hist.beats = 2 /\ hist.sent[ID1].fresh
    /\ Get(resp.req.data, "appUsage") = <<<<AppEntry("chrome", 3), AppEntry("word", 2)>>>>
    /\ kv[ID1].appUsage = <<[name |-> "chrome", usageMinutes |-> Minutes(8)],
                            [name |-> "word", usageMinutes |-> Minutes(2)]>>

\* the sum of a numeric field over the entries of an array that are for domain d
RECURSIVE SumFor(_, _, _)
SumFor(raw, d, k) ==
    IF raw = <<>> THEN 0
    ELSE (IF Head(raw).domain = d THEN Head(raw)[k].v ELSE 0) + SumFor(Tail(raw), d, k)

\* the aggregate holds exactly the domains of the array `raw` of well-formed entries, each
\* once, with the visits and the minutes summed over the entries for that domain
WebAggregateIs(sites, raw) ==
    /\ \A d \in Domains :
          IF \E j \in DOMAIN raw : raw[j].domain = d
          THEN \E i \in DOMAIN sites :
                  /\ sites[i].domain = d
                  /\ sites[i].visits = SumFor(raw, d, "visits")
                  /\ sites[i].usageMinutes = Minutes(SumFor(raw, d, "usageMinutes"))
          ELSE \A i \in DOMAIN sites : sites[i].domain # d
    /\ \A i, j \in DOMAIN sites : sites[i].domain = sites[j].domain => i = j
    /\ \A i \in DOMAIN sites : sites[i].domain \in Domains

\* the usage of a record is what the payload alone gives on an empty aggregate
OwnDeltasOnly(rec, data) ==
    /\ AppAggregateIs(rec.appUsage, [n \in Names |-> SumPositive(ArrOrEmpty(data, "appUsage"), n)])
    /\ WebAggregateIs(rec.webUsage, ArrOrEmpty(data, "webUsage"))

\* the last response is a 200 of endpoint op for device id
Answered(r, op, id) == r.op = op /\ r.code = 200 /\ r.id = <<id>>

\* C2: after assignCompany(id, c) succeeds, a heartbeat for id leaves company equal to c,
\* whatever its payload contains; company changes only through assignCompany.
\* (Stated for the heartbeat that follows the assignment.)
C2_CompanyKeptByHeartbeat ==
    [][\A id \in IDs :
          Answered(resp, "assign", id) /\ Answered(resp', "heartbeat", id)
              => Get(kv'[id], "company") = resp.req.company]_vars

\* C5: a successful heartbeat whose payload has no videos key, or an empty videos array,
\* leaves the stored videos of the record unchanged; a payload with a non-empty videos
\* array replaces them.
C5_VideosKeptWithoutPayloadVideos ==
    [][\A id \in IDs :
          Answered(resp', "heartbeat", id)
              => LET data == resp'.req.data
                 IN  kv'[id].videos =
                         IF Has(data, "videos") /\ data.videos # <<>> THEN data.videos
                         ELSE ArrOrEmpty(GetOrEmpty(kv, id), "videos")]_vars

\* a heartbeat with an empty videos array has left both the uploaded video and the
\* video of an earlier payload in the record
C5_Witness ==
    /\ Answered(resp, "heartbeat", ID1)
    /\ Has(resp.req.data, "videos") /\ resp.req.data.videos = <<>>
    /\ Len(kv[ID1].videos) = 2
    /\ kv[ID1].videos[1].url = 1
    /\ kv[ID1].videos[2] = PayloadVideo

\* the record an upload creates for an id without a record
IsScaffold(rec, id, video) ==
    /\ rec.installId = id
    /\ rec.hostname = <<"Device-">> \o SubSeq(id, 1, 6)
    /\ rec.videos = <<video>>
    /\ rec.appUsage = <<>> /\ rec.webUsage = <<>>

\* C6: an upload for an id that has no record succeeds; it adds the id to device_ids and
\* creates a record whose videos hold exactly the new video, with a placeholder hostname
\* made of the first six characters of the id and empty usage. A following successful
\* heartbeat for that id without video data keeps the video and applies its own deltas.
C6_UploadBeforeHeartbeat ==
    [][\A id \in IDs :
          /\ resp'.op = "upload" /\ resp'.id = <<id>> /\ id \notin DOMAIN kv
                 => /\ resp'.code = 200
                    /\ id \in device_ids'
                    /\ id \in DOMAIN kv'
                    /\ IsScaffold(kv'[id], id,
                                  [url |-> resp'.req.fields.url,
                                   timestamp |-> IF Has(resp'.req.fields, "timestamp")
                                                 THEN resp'.req.fields.timestamp ELSE resp'.at,
                                   filename |-> IF Has(resp'.req.fields, "filename")
                                                THEN resp'.req.fields.filename ELSE "recording.mp4"])
          /\ (Answered(resp, "upload", id) /\ Answered(resp', "heartbeat", id)
                 /\ Len(kv[id].videos) = 1 /\ kv[id].appUsage = <<>> /\ kv[id].webUsage = <<>>
                 /\ ArrOrEmpty(resp'.req.data, "videos") = <<>>)
                 => /\ kv'[id].videos = kv[id].videos
                    /\ OwnDeltasOnly(kv'[id], resp'.req.data)]_vars

\* upload, then the first heartbeat {chrome: 5, a.com: 2 visits}: the record holds the
\* uploaded video, the usage of that heartbeat and the heartbeat's hostname
C6_Witness ==
    /\ Answered(resp, "heartbeat", ID1) /\ Answered(resp.prev, "upload", ID1)
    /\ hist.beats = 1
    /\ resp.req.data = Payload(ID1, UsageExtra)
    /\ Len(kv[ID1].videos) = 1 /\ kv[ID1].videos[1].url = 1
    /\ kv[ID1].appUsage = <<[name |-> "chrome", usageMinutes |-> Minutes(5)]>>
    /\ kv[ID1].status = "Online"
    /\ ID1 \in device_ids

C8_ResetThenHeartbeat ==
    \A id \in IDs :
        Answered(resp, "heartbeat", id) /\ Answered(resp.prev, "reset", id)
            => OwnDeltasOnly(kv[id], resp.req.data)

\* two heartbeats' worth of usage was reset, and the heartbeat {a.com: 2 visits, 1 minute}
\* after the reset has left that entry alone and no application usage
C8_Witness ==
    /\ Answered(resp, "heartbeat", ID1) /\ Answered(resp.prev, "reset", ID1)
    /\ hist.beats = 2
    /\ hist.sent[ID1].sum["chrome"] > 0
    /\ Get(resp.req.data, "webUsage") = <<<<WebEntry("a.com", 2, 1)>>>>
    /\ ~Has(resp.req.data, "appUsage")
    /\ kv[ID1].appUsage = <<>>
    /\ kv[ID1].webUsage = <<[domain |-> "a.com", visits |-> 2, usageMinutes |-> Minutes(1),
                             category |-> "Browsing"]>>

\* C9: in every listing, a device's status is Online exactly when the time of the listing
\* minus the stored lastSeen is less than 5 minutes, and Offline otherwise, whatever
\* status value the record stores.
C9_StatusDerivedFromLastSeen ==
    resp.op = "list" =>
        \A i \in DOMAIN resp.body :
            LET d == resp.body[i]
            IN  /\ d.status \in {"Online", "Offline"}
                /\ d.status = "Online" <=> resp.at - kv[d.id].lastSeen < 5

\* a listing at minute 5 shows Offline a device last seen at minute 0 whose record says
\* Online, and Online a device seen at minute 1
C9_Witness ==
    /\ resp.op = "list" /\ resp.at = 5
    /\ \E i, j \in DOMAIN resp.body :
          /\ resp.body[i].status = "Offline"
          /\ Get(kv[resp.body[i].id], "status") = <<"Online">>
          /\ kv[resp.body[i].id].lastSeen = 0
          /\ resp.body[j].status = "Online"
          /\ kv[resp.body[j].id].lastSeen = 1

\* C10: after a 200 of a heartbeat or of an upload, the lastSeen of the record is the
\* time the request was handled, for an upload to an existing record as for one that
\* creates it.
C10_LastSeenIsHandlingTime ==
    \A id \in IDs :
        (Answered(resp, "heartbeat", id) \/ Answered(resp, "upload", id))
            => kv[id].lastSeen = resp.at

\* C3: whenever no request is in progress, every device record has its id in device_ids,
\* for every interleaving of the steps of heartbeat, upload, deleteDevice, resetAnalytics
\* and assignCompany on the same id.
C3_RecordImpliesMembership ==
    DOMAIN reqs = {} => DOMAIN kv \subseteq device_ids

\* C4: a single heartbeat merge never makes a stored appUsage usageMinutes, webUsage
\* usageMinutes or webUsage visits smaller, never removes a name or domain, and creates
\* or changes only entries whose name or domain occurs in the heartbeat's delta.
Additive(old, new, raw, key, counters) ==
    /\ \A i \in DOMAIN old :
          \E j \in DOMAIN new :
              /\ new[j][key] = old[i][key]
              /\ \A c \in counters : new[j][c] >= old[i][c]
    /\ \A j \in DOMAIN new :
          \/ \E i \in DOMAIN old : new[j] = old[i]
          \/ \E k \in DOMAIN raw : raw[k][key] = new[j][key]

C4_MergeIsAdditive ==
    [][\A id \in IDs :
          Answered(resp', "heartbeat", id) /\ id \in DOMAIN kv
              => /\ Additive(kv[id].appUsage, kv'[id].appUsage,
                             ArrOrEmpty(resp'.req.data, "appUsage"), "name", {"usageMinutes"})
                 /\ Additive(kv[id].webUsage, kv'[id].webUsage,
                             ArrOrEmpty(resp'.req.data, "webUsage"), "domain",
                             {"usageMinutes", "visits"})]_vars

\* C11: every stored record has at most 50 videos, and each upload puts its new video at
\* the head of the list, keeps the previous entries in their order and drops only the
\* oldest beyond 50, after any sequence of uploads and heartbeats, heartbeats whose
\* payload carries a videos list included.
C11_AtMostFiftyVideos ==
    [][/\ \A id \in DOMAIN kv' : Len(kv'[id].videos) <= 50
       /\ \A id \in IDs :
             Answered(resp', "upload", id)
                 => LET old == ArrOrEmpty(GetOrEmpty(kv, id), "videos")
                        new == kv'[id].videos
                    IN  /\ Len(new) = Min(Len(old) + 1, 50)
                        /\ new[1].url = resp'.req.fields.url
                        /\ \A i \in 2..Len(new) : new[i] = old[i - 1]]_vars

\* C12 as written: an upload for an id whose record exists leaves appUsage, webUsage and
\* company unchanged, and changes only videos (and lastSeen).
C12_Original_OnlyVideosChange ==
    [][\A id \in IDs :
          Answered(resp', "upload", id) /\ id \in DOMAIN kv
              => /\ DOMAIN kv'[id] = DOMAIN kv[id]
                 /\ \A k \in DOMAIN kv[id] \ {"videos", "lastSeen"} : kv'[id][k] = kv[id][k]]_vars

\* C12, amended: an upload for an id whose record exists leaves appUsage, webUsage,
\* company and every other field but videos, lastSeen and status as they were; it puts
\* its video in videos and, when the record has no status, adds status 'Online' (a
\* status the record already has is kept).
C12_UploadKeepsUsageAndCompany ==
    [][\A id \in IDs :
          Answered(resp', "upload", id) /\ id \in DOMAIN kv
              => /\ kv'[id].appUsage = kv[id].appUsage
                 /\ kv'[id].webUsage = kv[id].webUsage
                 /\ Get(kv'[id], "company") = Get(kv[id], "company")
                 /\ DOMAIN kv'[id] = DOMAIN kv[id] \cup {"status"}
                 /\ \A k \in DOMAIN kv[id] \ {"videos", "lastSeen"} : kv'[id][k] = kv[id][k]
                 /\ ~Has(kv[id], "status") => kv'[id].status = "Online"
                 /\ kv'[id].videos # kv[id].videos]_vars

\* heartbeat {chrome: 5, a.com}, company Acme assigned, then an upload: usage and company
\* are as before, the video is there
C12_Witness ==
    /\ Answered(resp, "upload", ID1) /\ Answered(resp.prev, "assign", ID1)
    /\ Get(kv[ID1], "company") = <<"Acme">>
    /\ kv[ID1].appUsage = <<[name |-> "chrome", usageMinutes |-> Minutes(5)]>>
    /\ Len(kv[ID1].webUsage) = 1
    /\ kv[ID1].hostname = HostH1
    /\ Len(kv[ID1].videos) = 1
    /\ kv[ID1].status = "Online"

\* C13: a heartbeat or upload rejected for a validation error (400) or an auth error (401)
\* leaves device_ids, every device record and the blob store as they were.
C13_RejectionChangesNothing ==
    [][resp'.op \in {"heartbeat", "upload"} /\ resp'.code \in {400, 401}
          => device_ids' = device_ids /\ kv' = kv /\ blobs' = blobs]_vars

\* C14: a heartbeat or upload answers 200 only if its write of the device record has
\* completed; if a KV operation of the request fails the response is an error; and when
\* the KV store is unconfigured a request carrying the valid token is answered 503 with
\* device_ids, the records and the blob store unchanged.
C14_NoSilentSuccess ==
    [][resp'.op \in {"heartbeat", "upload"}
          => /\ resp'.code = 200
                 => /\ resp'.req.fail = "none"
                    /\ env.kv
                    /\ resp'.id[1] \in DOMAIN kv'
                    /\ resp'.op = "heartbeat" =>
                          kv' = KvSet(kv, resp'.id[1],
                                      updatedData(GetOrEmpty(kv, resp'.id[1]), resp'.req.data, resp'.at))
                    /\ resp'.op = "upload" =>
                          /\ kv'[resp'.id[1]].videos[1].url = resp'.req.fields.url
                          /\ \E b \in blobs' : b.url = resp'.req.fields.url
             /\ resp'.req.fail # "none" => resp'.code >= 400
             /\ ~env.kv /\ resp'.req.token
                 => /\ resp'.code = 503
                    /\ device_ids' = device_ids /\ kv' = kv /\ blobs' = blobs]_vars

\* the blob write of an upload succeeded and the kv.set that links it failed: the answer
\* is 500 and no record was written
C14_Witness ==
    /\ resp.op = "upload" /\ resp.code = 500
    /\ resp.req.fail = "set"
    /\ blobs # {}
    /\ ID1 \in device_ids
    /\ ID1 \notin DOMAIN kv

\* C15: if the blob write of an upload fails, or yields no URL, the upload answers with
\* an error and neither device_ids nor any record is modified; an upload modifies the
\* KV store only after its blob write has succeeded.
C15_NoLinkWithoutBlob ==
    [][resp'.op = "upload"
          => /\ ~resp'.req.putOk \/ Has(resp'.req, "noUrl")
                 => resp'.code >= 400 /\ device_ids' = device_ids /\ kv' = kv
             /\ device_ids' # device_ids \/ kv' # kv
                 => /\ resp'.req.putOk /\ ~Has(resp'.req, "noUrl")
                    /\ blobs' # blobs]_vars

\* the put of an upload for an existing device failed: 500, the record has no video and
\* the blob store is empty
C15_Witness ==
    /\ resp.op = "upload" /\ resp.code = 500
    /\ resp.req.token /\ resp.req.file /\ ~resp.req.putOk
    /\ env.kv /\ env.blob
    /\ Answered(resp.prev, "heartbeat", ID1)
    /\ kv[ID1].videos = <<>>
    /\ blobs = {}

\* every record but that of id, the membership set and the blob store are as they were
OthersUnchanged(id) ==
    /\ device_ids' = device_ids
    /\ blobs' = blobs
    /\ DOMAIN kv' = DOMAIN kv
    /\ \A other \in DOMAIN kv \ {id} : kv'[other] = kv[other]

\* C16: resetAnalytics(id) on an existing record empties appUsage and webUsage and leaves
\* every other field and device_ids unchanged; on an id without a record it answers 404
\* and changes nothing, creating neither a record nor a membership.
C16_ResetTouchesUsageOnly ==
    [][\A id \in IDs :
          resp'.op = "reset" /\ resp'.id = <<id>>
              => IF id \in DOMAIN kv
                 THEN /\ resp'.code = 200
                      /\ OthersUnchanged(id)
                      /\ kv'[id].appUsage = <<>> /\ kv'[id].webUsage = <<>>
                      /\ DOMAIN kv'[id] = DOMAIN kv[id] \cup {"appUsage", "webUsage"}
                      /\ \A k \in DOMAIN kv[id] \ {"appUsage", "webUsage"} : kv'[id][k] = kv[id][k]
                 ELSE /\ resp'.code = 404
                      /\ kv' = kv /\ device_ids' = device_ids /\ blobs' = blobs]_vars

\* a record with accumulated usage, a company, a video and a screenshot has been reset:
\* the usage is empty and the rest is still there
C16_Witness ==
    /\ Answered(resp, "reset", ID1)
    /\ hist.sent[ID1].sum["chrome"] > 0
    /\ kv[ID1].appUsage = <<>> /\ kv[ID1].webUsage = <<>>
    /\ Get(kv[ID1], "company") = <<"Acme">>
    /\ Len(kv[ID1].videos) = 1
    /\ Get(kv[ID1], "lastScreenshot") = <<"img">>
    /\ Has(kv[ID1], "lastScreenshotTime")
    /\ kv[ID1].hostname = HostH1
    /\ ID1 \in device_ids

\* C17: assignCompany(id, c) on an existing record changes only the company field,
\* leaving usage, videos, lastSeen and device_ids unchanged; on an id without a record it
\* answers 404 and changes nothing, creating neither a record nor a membership.
C17_AssignTouchesCompanyOnly ==
    [][\A id \in IDs :
          resp'.op = "assign" /\ resp'.id = <<id>>
              => IF id \in DOMAIN kv
                 THEN /\ resp'.code = 200
                      /\ OthersUnchanged(id)
                      /\ Get(kv'[id], "company") = resp'.req.company
                      /\ DOMAIN kv'[id] \ {"company"} = DOMAIN kv[id] \ {"company"}
                      /\ \A k \in DOMAIN kv[id] \ {"company"} : kv'[id][k] = kv[id][k]
                 ELSE /\ resp'.code = 404
                      /\ kv' = kv /\ device_ids' = device_ids /\ blobs' = blobs]_vars

\* a record with usage and a video has been given the company Acme
C17_Witness ==
    /\ Answered(resp, "assign", ID1) /\ Answered(resp.prev, "upload", ID1)
    /\ Get(kv[ID1], "company") = <<"Acme">>
    /\ kv[ID1].appUsage = <<[name |-> "chrome", usageMinutes |-> Minutes(5)]>>
    /\ Len(kv[ID1].webUsage) = 1
    /\ Len(kv[ID1].videos) = 1
    /\ kv[ID1].lastSeen = 0

\* C18: deleteDevice(id) succeeds for every id, whether or not a record or a membership
\* exists; afterwards id is not in device_ids and has no record, every other device's
\* record and membership are unchanged, and deleting twice gives the same state as
\* deleting once.
C18_DeleteAlwaysSucceeds ==
    [][\A id \in IDs :
          /\ resp'.op = "delete" /\ resp'.id = <<id>> /\ resp'.req.fail = "none"
                 => /\ resp'.code = 200
                    /\ device_ids' = device_ids \ {id}
                    /\ DOMAIN kv' = DOMAIN kv \ {id}
                    /\ \A other \in DOMAIN kv \ {id} : kv'[other] = kv[other]
                    /\ blobs' = blobs
          /\ Answered(resp, "delete", id) /\ Answered(resp', "delete", id)
                 => device_ids' = device_ids /\ kv' = kv /\ blobs' = blobs]_vars

\* the first device has been deleted twice in a row, the second is still registered with
\* its usage
C18_Witness ==
    /\ Answered(resp, "delete", ID1) /\ Answered(resp.prev, "delete", ID1)
    /\ ID1 \notin device_ids /\ ID1 \notin DOMAIN kv
    /\ hist.beats = 2
    /\ ID2 \in device_ids /\ ID2 \in DOMAIN kv
    /\ kv[ID2].appUsage = <<[name |-> "chrome", usageMinutes |-> Minutes(5)]>>

\* a device is Registered when it is in device_ids and has a record
Registered(id) == id \in device_ids /\ id \in DOMAIN kv

\* C19: a Registered installId stays Registered through every heartbeat, upload,
\* resetAnalytics and assignCompany; only deleteDevice removes its record or its
\* membership.
C19_RegisteredUntilDeleted ==
    [][\A id \in IDs :
          /\ Registered(id) /\ resp'.op # "delete" => id \in device_ids' /\ id \in DOMAIN kv'
          /\ (id \in device_ids /\ id \notin device_ids') \/ (id \in DOMAIN kv /\ id \notin DOMAIN kv')
                 => resp'.op = "delete" /\ resp'.id = <<id>>]_vars

\* the first device is still Registered after a heartbeat, an upload, a reset and an
\* assignment, while the second one has no record
C19_Witness ==
    /\ Answered(resp, "assign", ID1) /\ Answered(resp.prev, "reset", ID1)
    /\ ID1 \in device_ids /\ ID1 \in DOMAIN kv
    /\ Len(kv[ID1].videos) = 1
    /\ hist.sent[ID1].sum["chrome"] > 0
    /\ ID2 \notin DOMAIN kv
    /\ hist.beats = 2

\* the visits an entry carries (0 if missing or not a number)
VisitsSent(e) == IF Has(e, "visits") /\ e.visits.num THEN e.visits.v ELSE 0

\* visits > 1000 and resolved minutes equal to 0
SentAsMilliseconds(e) == VisitsSent(e) > 1000 /\ DeltaSent(e) = 0

\* what the claim says an entry adds: visits, and minutes in units (visits / 1000 / 60
\* minutes for the milliseconds form)
VisitsAdded(e) == IF SentAsMilliseconds(e) THEN 0 ELSE VisitsSent(e)
MinutesAdded(e) ==
    IF SentAsMilliseconds(e) THEN (VisitsSent(e) * UnitsPerMinute) \div (1000 * 60)
    ELSE DeltaSent(e)

RECURSIVE SumAdded(_, _, _)
SumAdded(raw, d, visits) ==
    IF raw = <<>> THEN 0
    ELSE (IF Head(raw).domain # d THEN 0
          ELSE IF visits THEN VisitsAdded(Head(raw)) ELSE MinutesAdded(Head(raw)))
         + SumAdded(Tail(raw), d, visits)

\* the counter k of domain d in a webUsage array, 0 if the domain has no entry
Counter(sites, d, k) ==
    IF \E i \in DOMAIN sites : sites[i].domain = d
    THEN sites[CHOOSE i \in DOMAIN sites : sites[i].domain = d][k]
    ELSE 0

\* C20: in the web-usage merge an entry with visits > 1000 and resolved minutes 0 adds
\* visits/1000/60 minutes and 0 visits to its domain; every other entry adds its visits
\* and its minutes unchanged.
C20_LegacyMilliseconds ==
    [][\A id \in IDs :
          Answered(resp', "heartbeat", id)
              => LET old == ArrOrEmpty(GetOrEmpty(kv, id), "webUsage")
                     new == kv'[id].webUsage
                     raw == ArrOrEmpty(resp'.req.data, "webUsage")
                 IN  \A d \in Domains :
                        /\ Counter(new, d, "visits") = Counter(old, d, "visits") + SumAdded(raw, d, TRUE)
                        /\ Counter(new, d, "usageMinutes") =
                               Counter(old, d, "usageMinutes") + SumAdded(raw, d, FALSE)]_vars

\* {a.com: 2 visits, 1 minute} and then {a.com: visits 5000, minutes 0}: a.com still has
\* 2 visits, and 1 minute plus 5000 ms
C20_Witness ==
    /\ Answered(resp, "heartbeat", ID1) /\ Answered(resp.prev, "heartbeat", ID1)
    /\ Get(resp.req.data, "webUsage") = <<<<LegacyEntry>>>>
    /\ kv[ID1].webUsage = <<[domain |-> "a.com", visits |-> 2,
                             usageMinutes |-> Minutes(1) + 5000, category |-> "Browsing"]>>

\* minutes in units, rounded to the nearest hundredth of a minute
Hundredths(u) == (u * 100 + UnitsPerMinute \div 2) \div UnitsPerMinute

\* a heartbeat for id whose only website delta is {visits: 5000, usageMinutes: 0}
LegacyDeltaMerged(r, id) ==
    Answered(r, "heartbeat", id) /\ Get(r.req.data, "webUsage") = <<<<LegacyEntry>>>>

\* C21 as stated: the delta {visits: 5000, usageMinutes: 0} adds 0 visits and 83.33
\* minutes to its domain.
C21_Original_EightyThreeMinutes ==
    [][\A id \in IDs :
          LegacyDeltaMerged(resp', id)
              => LET old == ArrOrEmpty(GetOrEmpty(kv, id), "webUsage")
                     new == kv'[id].webUsage
                 IN  /\ Counter(new, "a.com", "visits") = Counter(old, "a.com", "visits")
                     /\ Hundredths(Counter(new, "a.com", "usageMinutes")
                                   - Counter(old, "a.com", "usageMinutes")) = 8333]_vars

\* C21: the delta {visits: 5000, usageMinutes: 0} adds 0 visits and 5000/1000/60 minutes
\* (one twelfth of a minute, 0.08 when rounded) to its domain, and no other domain changes.
C21_LegacyDeltaIsFiveSeconds ==
    [][\A id \in IDs :
          LegacyDeltaMerged(resp', id)
              => LET old == ArrOrEmpty(GetOrEmpty(kv, id), "webUsage")
                     new == kv'[id].webUsage
                     added == Counter(new, "a.com", "usageMinutes")
                              - Counter(old, "a.com", "usageMinutes")
                 IN  /\ Counter(new, "a.com", "visits") = Counter(old, "a.com", "visits")
                     /\ added * 1000 * 60 = 5000 * UnitsPerMinute
                     /\ Hundredths(added) = 8
                     /\ \A k \in {"visits", "usageMinutes"} :
                            Counter(new, "b.org", k) = Counter(old, "b.org", k)]_vars

\* the delta {visits: 5000, usageMinutes: 0} is the first one for a.com on a device that
\* already has usage for b.org: a.com is stored with 0 visits and 5000 ms
C21_Witness ==
    /\ LegacyDeltaMerged(resp, ID1)
    /\ Answered(resp.prev, "heartbeat", ID1)
    /\ Len(kv[ID1].webUsage) = 2
    /\ kv[ID1].webUsage[2] = [domain |-> "a.com", visits |-> 0,
                              usageMinutes |-> 5000, category |-> "Browsing"]

\* the step is a heartbeat for id that was answered with 200
HeartbeatStored(id) == hist'.beats = hist.beats + 1 /\ Answered(resp', "heartbeat", id)

\* C22: a heartbeat whose payload has a (non-empty) lastScreenshot stores that screenshot
\* with the handling time as lastScreenshotTime; any other heartbeat leaves lastScreenshot
\* and lastScreenshotTime as they were stored (absent if they were absent), whatever
\* lastScreenshotTime the payload carries; so a record has both fields or neither.
C22_ScreenshotPairInLockstep ==
    [][\A id \in IDs :
          HeartbeatStored(id)
              => LET old == GetOrEmpty(kv, id)
                     new == kv'[id]
                     data == resp'.req.data
                 IN  /\ IF TruthyStr(Get(data, "lastScreenshot"))
                        THEN /\ Get(new, "lastScreenshot") = Get(data, "lastScreenshot")
                             /\ Get(new, "lastScreenshotTime") = <<now>>
                        ELSE /\ Get(new, "lastScreenshot") = Get(old, "lastScreenshot")
                             /\ Get(new, "lastScreenshotTime") = Get(old, "lastScreenshotTime")
                     /\ Has(new, "lastScreenshot") <=> Has(new, "lastScreenshotTime")]_vars

\* a screenshot was stored at time 1; a later heartbeat, at time 3, carries no screenshot
\* but a lastScreenshotTime of its own, and the stored pair is still the one of time 1
C22_Witness ==
    /\ Answered(resp, "heartbeat", ID1) /\ Answered(resp.prev, "heartbeat", ID1)
    /\ resp.at = 3
    /\ resp.req.data = Payload(ID1, [lastScreenshotTime |-> 0 - 1])
    /\ kv[ID1].lastSeen = 3
    /\ Get(kv[ID1], "lastScreenshot") = <<"img2">>
    /\ Get(kv[ID1], "lastScreenshotTime") = <<1>>

\* the minutes stored for app n in an appUsage array, 0 if the name has no entry
AppMinutes(apps, n) ==
    IF \E i \in DOMAIN apps : apps[i].name = n
    THEN apps[CHOOSE i \in DOMAIN apps : apps[i].name = n].usageMinutes
    ELSE 0

\* the request in progress p completes its write in this step
Writes(p) == At(p, "set") /\ p \notin DOMAIN reqs'

\* the last write on id was that of an `op` request which had read the record `read`, and
\* that write changed the record
LastWriteFrom(op, id, read) ==
    /\ Answered(resp, op, id)
    /\ resp.req.read = read
    /\ GetOrEmpty(kv, id) # read

\* C23: when a heartbeat writes after another heartbeat for the same installId and both
\* had read the same record before the first of the two writes, the stored usage is the
\* record that was read plus the later writer's deltas only: what only the earlier writer
\* carried is gone from the counters again.
C23_LaterHeartbeatOverwrites ==
    [][\A p \in HeartbeatSlots :
          (Writes(p) /\ LastWriteFrom("heartbeat", reqs[p].data.installId, reqs[p].existingData))
              => LET id == reqs[p].data.installId
                     read == reqs[p].existingData
                     earlier == resp.req.data
                     later == reqs[p].data
                     readApps == ArrOrEmpty(read, "appUsage")
                     readSites == ArrOrEmpty(read, "webUsage")
                 IN  /\ AppAggregateIs(kv'[id].appUsage,
                            [n \in Names |-> AppMinutes(readApps, n)
                                             + SumPositive(ArrOrEmpty(later, "appUsage"), n)])
                     /\ \A d \in Domains :
                            /\ Counter(kv'[id].webUsage, d, "visits") =
                                   Counter(readSites, d, "visits")
                                   + SumFor(ArrOrEmpty(later, "webUsage"), d, "visits")
                            /\ Counter(kv'[id].webUsage, d, "usageMinutes") =
                                   Counter(readSites, d, "usageMinutes")
                                   + Minutes(SumFor(ArrOrEmpty(later, "webUsage"), d, "usageMinutes"))
                     /\ \A n \in Names :
                            SumPositive(ArrOrEmpty(later, "appUsage"), n) = 0
                                => /\ AppMinutes(kv'[id].appUsage, n) = AppMinutes(readApps, n)
                                   /\ SumPositive(ArrOrEmpty(earlier, "appUsage"), n) > 0
                                          => AppMinutes(kv'[id].appUsage, n)
                                                 < AppMinutes(kv[id].appUsage, n)]_vars

\* {chrome: 5, a.com} and {word: 2} were both sent for a new device and both read the
\* empty record: the second write leaves word alone, chrome and a.com are gone
C23_Witness ==
    /\ DOMAIN reqs = {}
    /\ Answered(resp, "heartbeat", ID1) /\ Answered(resp.prev, "heartbeat", ID1)
    /\ resp.req.read = EmptyObj
    /\ hist.beats = 2
    /\ hist.sent[ID1].sum = [n \in Names |-> IF n = "chrome" THEN Minutes(5) ELSE Minutes(2)]
    /\ kv[ID1].appUsage = <<[name |-> "word", usageMinutes |-> Minutes(2)]>>
    /\ kv[ID1].webUsage = <<>>

\* the urls of the videos of a record
VideoUrls(rec) == {v.url : v \in {ArrOrEmpty(rec, "videos")[i] : i \in DOMAIN ArrOrEmpty(rec, "videos")}}

\* C24: when an upload and a heartbeat for the same installId had both read the same
\* record before the first of the two writes, the second write undoes the first: if the
\* heartbeat writes last the record has the videos that were read, without the uploaded
\* one; if the upload writes last the record has the usage that was read, without the
\* heartbeat's deltas (and has the uploaded video).
C24_UploadAndHeartbeatLoseOne ==
    [][/\ \A p \in HeartbeatSlots :
             (Writes(p) /\ LastWriteFrom("upload", reqs[p].data.installId, reqs[p].existingData))
                 => LET id == reqs[p].data.installId
                    IN  /\ resp.req.fields.url \in VideoUrls(kv[id])
                        /\ resp.req.fields.url \notin VideoUrls(kv'[id])
                        /\ kv'[id].videos = ArrOrEmpty(reqs[p].existingData, "videos")
                        /\ \A n \in Names :
                               SumPositive(ArrOrEmpty(reqs[p].data, "appUsage"), n) > 0
                                   => AppMinutes(kv'[id].appUsage, n) > 0
       /\ (Writes("upload")
             /\ LastWriteFrom("heartbeat", deviceIdOf(reqs["upload"].fields)[1],
                              reqs["upload"].existingDevice))
             => LET id == deviceIdOf(reqs["upload"].fields)[1]
                    read == reqs["upload"].existingDevice
                    sent == ArrOrEmpty(resp.req.data, "appUsage")
                IN  /\ kv'[id].appUsage = ArrOrEmpty(read, "appUsage")
                    /\ kv'[id].webUsage = ArrOrEmpty(read, "webUsage")
                    /\ \A n \in Names :
                           SumPositive(sent, n) > 0
                               => AppMinutes(kv'[id].appUsage, n) < AppMinutes(kv[id].appUsage, n)
                    /\ Len(kv'[id].videos) > 0
                    /\ kv'[id].videos[1].url = reqs["upload"].videoUrl]_vars

\* a heartbeat {chrome: 5, a.com} for a new device was stored, then the upload that had
\* read the empty record wrote: the record has the video and no usage at all
C24_Witness ==
    /\ DOMAIN reqs = {}
    /\ Answered(resp, "upload", ID1) /\ Answered(resp.prev, "heartbeat", ID1)
    /\ resp.req.read = EmptyObj
    /\ hist.beats = 1
    /\ hist.sent[ID1].sum["chrome"] = Minutes(5)
    /\ Len(kv[ID1].videos) = 1
    /\ kv[ID1].appUsage = <<>> /\ kv[ID1].webUsage = <<>>

\* C25: the body of a listing has exactly one view for each id of device_ids that has a
\* record and no other view (an id without a record is skipped, and the answer is still
\* a 200), and the views are in descending order of lastSeen.
C25_OneViewPerStoredDevice ==
    resp.op = "list"
        => /\ resp.code = 200
           /\ {resp.body[i].id : i \in DOMAIN resp.body} = device_ids \cap DOMAIN kv
           /\ Len(resp.body) = Cardinality(device_ids \cap DOMAIN kv)
           /\ \A i \in DOMAIN resp.body : resp.body[i].lastSeen = kv[resp.body[i].id].lastSeen
           /\ \A i, j \in DOMAIN resp.body :
                  i < j => resp.body[i].lastSeen >= resp.body[j].lastSeen

\* three ids are registered, the third has no record; the first was seen at time 0 and
\* the second at time 2: the listing has the second, then the first, and nothing else
C25_Witness ==
    /\ resp.op = "list"
    /\ device_ids = {ID1, ID2, ID3}
    /\ DOMAIN kv = {ID1, ID2}
    /\ kv[ID1].lastSeen = 0 /\ kv[ID2].lastSeen = 2
    /\ Len(resp.body) = 2
    /\ resp.body[1].id = ID2 /\ resp.body[2].id = ID1

\* the minutes of an entry, in units, when the first alias present in the entry decides
FirstPresentAlias(e) ==
    IF Has(e, "usageMinutes") THEN e.usageMinutes.v * UnitsPerMinute
    ELSE IF Has(e, "usage_minutes") THEN e.usage_minutes.v * UnitsPerMinute
    ELSE IF Has(e, "usageSeconds") THEN e.usageSeconds.v * UnitsPerSecond
    ELSE IF Has(e, "usage_seconds") THEN e.usage_seconds.v * UnitsPerSecond
    ELSE 0

\* the minutes an array adds for the entries whose field `key` is x, counting only
\* positive ones if `positive`
RECURSIVE SumFirstPresent(_, _, _, _)
SumFirstPresent(raw, key, x, positive) ==
    IF raw = <<>> THEN 0
    ELSE (IF Head(raw)[key] = x /\ (~positive \/ FirstPresentAlias(Head(raw)) > 0)
          THEN FirstPresentAlias(Head(raw)) ELSE 0)
         + SumFirstPresent(Tail(raw), key, x, positive)

\* the payload spells the keys of its usage arrays appUsage and webUsage
CanonicalSpelling(data) == \A k \in {"AppUsage", "app_usage", "WebUsage", "web_usage"} : ~Has(data, k)

\* C26: the minutes a heartbeat adds for an app or a domain are those of the first alias
\* present in each entry, in the order usageMinutes, usage_minutes, usageSeconds / 60,
\* usage_seconds / 60: an entry with usageMinutes 0 adds nothing, whatever seconds field
\* it also has.
C26_FirstPresentAliasWins ==
    [][\A id \in IDs :
          (Answered(resp', "heartbeat", id) /\ CanonicalSpelling(resp'.req.data))
              => LET old == GetOrEmpty(kv, id)
                     apps == ArrOrEmpty(resp'.req.data, "appUsage")
                     sites == ArrOrEmpty(resp'.req.data, "webUsage")
                 IN  /\ \A n \in Names :
                            AppMinutes(kv'[id].appUsage, n) =
                                AppMinutes(ArrOrEmpty(old, "appUsage"), n)
                                + SumFirstPresent(apps, "name", n, TRUE)
                     /\ \A d \in Domains :
                            Counter(kv'[id].webUsage, d, "usageMinutes") =
                                Counter(ArrOrEmpty(old, "webUsage"), d, "usageMinutes")
                                + SumFirstPresent(sites, "domain", d, FALSE)]_vars

\* the payload with the keys of its usage arrays respelled appUsage and webUsage
Respelled(data) ==
    LET apps == OrArr(Get(data, "appUsage"), OrArr(Get(data, "AppUsage"), Get(data, "app_usage")))
        sites == OrArr(Get(data, "webUsage"), OrArr(Get(data, "WebUsage"), Get(data, "web_usage")))
        rest == [k \in DOMAIN data \ {"appUsage", "AppUsage", "app_usage",
                                      "webUsage", "WebUsage", "web_usage"} |-> data[k]]
    IN  WithOpt(WithOpt(rest, "appUsage", apps), "webUsage", sites)

\* C27: a heartbeat stores the appUsage and the webUsage that the same payload with its
\* usage arrays under the keys appUsage and webUsage would have stored, whichever of
\* appUsage, AppUsage, app_usage and webUsage, WebUsage, web_usage it uses.
C27_SpellingDoesNotMatter ==
    [][\A id \in IDs :
          Answered(resp', "heartbeat", id)
              => LET expected == updatedData(GetOrEmpty(kv, id), Respelled(resp'.req.data), now)
                 IN  /\ kv'[id].appUsage = expected.appUsage
                     /\ kv'[id].webUsage = expected.webUsage]_vars

\* the positive part of what the website entries of an array add to domain d: visits if
\* `visits`, else minutes in units
RECURSIVE SumPositiveAdded(_, _, _)
SumPositiveAdded(raw, d, visits) ==
    IF raw = <<>> THEN 0
    ELSE LET e == Head(raw)
             x == IF visits THEN VisitsAdded(e) ELSE MinutesAdded(e)
         IN  (IF e.domain = d /\ x > 0 THEN x ELSE 0) + SumPositiveAdded(Tail(raw), d, visits)

\* the step is the second of two successful deliveries in a row of one payload for id
Replayed(id) ==
    /\ Answered(resp, "heartbeat", id)
    /\ HeartbeatStored(id)
    /\ resp'.req.data = resp.req.data

\* C28: when a heartbeat payload is delivered a second time right after the first, every
\* counter of the aggregate grows again by the positive deltas the payload carries for
\* it (and by nothing else), so the replay changes every counter that has such a delta.
C28_ReplayCountsTwice ==
    [][\A id \in IDs :
          Replayed(id)
              => LET data == resp'.req.data
                     apps == ArrOrEmpty(data, "appUsage")
                     sites == ArrOrEmpty(data, "webUsage")
                 IN  /\ \A n \in Names :
                            AppMinutes(kv'[id].appUsage, n) =
                                AppMinutes(kv[id].appUsage, n) + SumPositive(apps, n)
                     /\ \A d \in Domains :
                            /\ Counter(kv'[id].webUsage, d, "visits") =
                                   Counter(kv[id].webUsage, d, "visits")
                                   + SumPositiveAdded(sites, d, TRUE)
                            /\ Counter(kv'[id].webUsage, d, "usageMinutes") =
                                   Counter(kv[id].webUsage, d, "usageMinutes")
                                   + SumPositiveAdded(sites, d, FALSE)]_vars

\* the category stored for domain d in a webUsage array (the domain has an entry)
CategoryOf(sites, d) == sites[CHOOSE i \in DOMAIN sites : sites[i].domain = d].category

HasDomain(sites, d) == \E i \in DOMAIN sites : sites[i].domain = d

\* the category the first entry for domain d in the array carries, if any
FirstCategory(raw, d) ==
    LET IsFor(e) == e.domain = d
    IN  Get(Head(SelectSeq(raw, IsFor)), "category")

\* C29: a heartbeat merge leaves the category of every domain that already had an entry
\* as it was, whatever categories its deltas carry, and gives a domain it inserts the
\* category of the first delta for that domain, or 'Browsing' if that delta has none (or
\* an empty one); so every entry has a category.
C29_CategoryFixedAtInsertion ==
    [][\A id \in IDs :
          HeartbeatStored(id)
              => LET old == ArrOrEmpty(GetOrEmpty(kv, id), "webUsage")
                     new == kv'[id].webUsage
                     raw == ArrOrEmpty(resp'.req.data, "webUsage")
                 IN  \A d \in Domains :
                        /\ HasDomain(old, d)
                              => HasDomain(new, d) /\ CategoryOf(new, d) = CategoryOf(old, d)
                        /\ (HasDomain(new, d) /\ ~HasDomain(old, d))
                              => CategoryOf(new, d) =
                                     IF TruthyStr(FirstCategory(raw, d))
                                     THEN FirstCategory(raw, d)[1] ELSE "Browsing"]_vars

\* a.com was first seen without a category; the next heartbeat carries a.com with the
\* categories Work and News: the entry has 3 visits and is still 'Browsing'
C29_Witness ==
    /\ Answered(resp, "heartbeat", ID1) /\ Answered(resp.prev, "heartbeat", ID1)
    /\ Get(resp.req.data, "webUsage") =
           <<<<CategoryEntry("a.com", "Work"), CategoryEntry("a.com", "News")>>>>
    /\ kv[ID1].webUsage = <<[domain |-> "a.com", visits |-> 3, usageMinutes |-> Minutes(3),
                             category |-> "Browsing"]>>

\* the value of field k of an entry, a missing or non-numeric one counting as 0
ValueOrZero(e, k) == IF Has(e, k) /\ e[k].num THEN e[k].v ELSE 0

\* the minutes of an entry in units, its missing and non-numeric fields counting as 0
MinutesOrZero(e) ==
    IF ValueOrZero(e, "usageMinutes") # 0 THEN ValueOrZero(e, "usageMinutes") * UnitsPerMinute
    ELSE IF ValueOrZero(e, "usage_minutes") # 0 THEN ValueOrZero(e, "usage_minutes") * UnitsPerMinute
    ELSE IF ValueOrZero(e, "usageSeconds") # 0 THEN ValueOrZero(e, "usageSeconds") * UnitsPerSecond
    ELSE ValueOrZero(e, "usage_seconds") * UnitsPerSecond

\* what the entries of an array add to the counter of x: visits if `visits`, else minutes
RECURSIVE SumOrZero(_, _, _, _)
SumOrZero(raw, key, x, visits) ==
    IF raw = <<>> THEN 0
    ELSE (IF Head(raw)[key] # x THEN 0
          ELSE IF visits THEN ValueOrZero(Head(raw), "visits") ELSE MinutesOrZero(Head(raw)))
         + SumOrZero(Tail(raw), key, x, visits)

Range(seq) == {seq[i] : i \in DOMAIN seq}

\* the stored objects in the folder of a record's hostname (hostnames compare without
\* regard to case), as url and timestamp
FolderVideos(rec) ==
    {[url |-> b.url, timestamp |-> IF b.nameTime # Undefined THEN b.nameTime[1] ELSE b.uploadedAt] :
        b \in {x \in blobs : Len(x.parts) >= 3 /\ toLowerCase(x.parts[2]) = toLowerCase(rec.hostname)}}

\* what a view's videos are drawn from: the record's own videos and the folder's objects
\* whose url is not in the record
Candidates(rec) ==
    {[url |-> v.url, timestamp |-> v.timestamp] : v \in Range(rec.videos)}
    \cup {f \in FolderVideos(rec) : \A v \in Range(rec.videos) : v.url # f.url}

\* C31: in every view of a listing the videos are drawn from the record's own videos and
\* the objects under recordings/<hostname>/ whose url is not in the record, no url occurs
\* twice, the order is newest timestamp first, at most 50 are shown, and a video is left
\* out only when 50 that are not older are shown.
C31_ViewVideosMerged ==
    [][(resp'.op = "list" /\ blobs' = blobs /\ kv' = kv)
          => \A n \in DOMAIN resp'.body :
                LET view == resp'.body[n].videos
                    rec == kv[resp'.body[n].id]
                    shown == {[url |-> v.url, timestamp |-> v.timestamp] : v \in Range(view)}
                IN  /\ shown \subseteq Candidates(rec)
                    /\ \A i, j \in DOMAIN view : view[i].url = view[j].url => i = j
                    /\ \A i, j \in DOMAIN view : i < j => view[i].timestamp >= view[j].timestamp
                    /\ Len(view) <= MaxVideos
                    /\ \A c \in Candidates(rec) \ shown :
                          /\ Len(view) = MaxVideos
                          /\ \A v \in shown : v.timestamp >= c.timestamp]_vars

\* C32: the lastSeen of a device record never decreases while the record exists, whatever
\* the interleaving of heartbeats and uploads on the device. (Violated: an upload writes
\* back the lastSeen of the record it had read, upload.ts:296-304.)
C32_LastSeenNeverDecreases ==
    [][\A id \in DOMAIN kv \cap DOMAIN kv' : kv'[id].lastSeen >= kv[id].lastSeen]_vars

\* C33: every upload answered 200 for a device has its video URL in the device's stored
\* videos list (fewer than 50 uploads happen), also when two uploads overlap. (Violated:
\* the second write replaces the list the first one stored, upload.ts:288-312.)
C33_AnsweredUploadsAreStored ==
    \A b \in blobs :
        (\A p \in DOMAIN reqs : ~(Has(reqs[p], "videoUrl") /\ reqs[p].videoUrl = b.url))
            => (ID1 \in DOMAIN kv /\ b.url \in VideoUrls(kv[ID1]))

\* C34: once a company has been assigned to a device (PATCH answered 200), the write of a
\* heartbeat or of an upload for the device leaves the stored company as it is, also when
\* the request had read the record before the assignment. (Violated: the request writes
\* the record it had read, which has no company, install.ts:152-165, upload.ts:296-312.)
C34_AssignedCompanyStays ==
    [][((Writes("heartbeat") \/ Writes("upload")) /\ ID1 \in DOMAIN kv /\ Has(kv[ID1], "company"))
          => (ID1 \in DOMAIN kv' /\ Get(kv'[ID1], "company") = Get(kv[ID1], "company"))]_vars

\* the urls of the videos that the requests completing their write in this step bring
OwnUrls == {reqs[p].videoUrl : p \in {q \in DOMAIN reqs : Writes(q) /\ Has(reqs[q], "videoUrl")}}

\* C35: a record that a heartbeat or an upload writes for a device which has none (after
\* DELETE answered 200, or at the start) carries nothing of a deleted record: no company,
\* no usage, and no video but the one of the upload that writes it, also when the writer
\* had read the record before the delete. (Violated: the writer stores the record it had
\* read.)
C35_DeletedDataStaysDeleted ==
    [][((Writes("heartbeat") \/ Writes("upload")) /\ ID1 \notin DOMAIN kv /\ ID1 \in DOMAIN kv')
          => /\ ~Has(kv'[ID1], "company")
             /\ VideoUrls(kv'[ID1]) \subseteq OwnUrls
             /\ ArrOrEmpty(kv'[ID1], "appUsage") = <<>>
             /\ ArrOrEmpty(kv'[ID1], "webUsage") = <<>>]_vars

\* C36: every record stored under the key of a device id has an installId field equal to
\* that id and a lastSeen value, after any sequence of heartbeats, uploads, resets,
\* assignments and deletes.
C36_RecordsCarryIdAndLastSeen ==
    \A id \in DOMAIN kv :
        /\ Has(kv[id], "installId")
        /\ kv[id].installId = id
        /\ Has(kv[id], "lastSeen")
        /\ kv[id].lastSeen \in 0..now

\* a record that an upload created or extended and an assignment has just rewritten
C36_Witness ==
    /\ Answered(resp, "assign", ID1)
    /\ ID1 \in DOMAIN kv
    /\ VideoUrls(kv[ID1]) # {}
    /\ Has(kv[ID1], "company")
    /\ kv[ID1].installId = ID1

\* the payload has no usage array under any spelling, or only empty ones
NoUsageArrays(data) ==
    \A k \in {"appUsage", "AppUsage", "app_usage", "webUsage", "WebUsage", "web_usage"} :
        Has(data, k) => data[k] = <<>>

\* C37: a heartbeat whose payload has no app-usage and no web-usage array, or empty ones,
\* leaves the stored appUsage and webUsage as they were, and still stores the handling
\* time as lastSeen and the payload's hostname, userName and osVersion.
C37_NoUsageLeavesUsageAlone ==
    [][\A id \in IDs :
          (HeartbeatStored(id) /\ NoUsageArrays(resp'.req.data))
              => LET data == resp'.req.data
                     before == GetOrEmpty(kv, id)
                     after == kv'[id]
                 IN  /\ after.appUsage = ArrOrEmpty(before, "appUsage")
                     /\ after.webUsage = ArrOrEmpty(before, "webUsage")
                     /\ after.lastSeen = now
                     /\ after.hostname = data.hostname
                     /\ \A k \in {"userName", "osVersion"} :
                           Get(after, k) = IF TruthyStr(Get(data, k)) THEN Get(data, k)
                                           ELSE Get(before, k)]_vars

\* a heartbeat with empty usage arrays has been stored, at a later time, on a record that
\* has usage
C37_Witness ==
    /\ Answered(resp, "heartbeat", ID1)
    /\ Get(resp.req.data, "webUsage") = <<<<>>>>
    /\ kv[ID1].appUsage # <<>>
    /\ kv[ID1].webUsage # <<>>
    /\ kv[ID1].lastSeen > 0

\* C38: when the KV store is unconfigured, GET is answered 200 with an empty list, and no
\* DELETE (delete or reset) or PATCH (assign company) is answered 200. (Violated: every
\* method gets the 200 with the empty list, AuthPage.tsx:158-162.)
C38_UnconfiguredStoreNeverSucceeds ==
    ~env.kv =>
        /\ (resp.op = "list" => (resp.code = 200 /\ resp.body = <<>>))
        /\ (resp.op \in {"delete", "reset", "assign"} => resp.code # 200)

====
